---- MODULE Spec2Model ----
(***************************************************************************)
(* A model of the PurC HVML interpreter's coroutine execution engine       *)
(* (Source/PurC/interpreter/interpreter.c): the per-coroutine frame stack  *)
(* machine, the run-loop driven scheduler, the observer/message layer and  *)
(* the request queues of the heap.                                         *)
(*                                                                         *)
(* Granularity.  The run loop executes one dispatched callback at a time.  *)
(* A dispatch of run_coroutines visits the coroutines one by one; for each *)
(* READY coroutine it enters a frame step, calls the element handler of    *)
(* the bottom frame (foreign code that may call back into the interpreter  *)
(* API) and then finishes the step.  pc records where the loop thread is.   *)
(*                                                                         *)
(* PC_ASSERT is defined outside the modelled files; a failed PC_ASSERT is  *)
(* a process abort in a checking build and is skipped in a build that      *)
(* compiles the checks out.  The build is fixed in the initial state.      *)
(***************************************************************************)
EXTENDS Integers, Sequences, FiniteSets, TLC

\* ------------------------------------------------------------------------
\* Bounds of the model
MaxCo == 2
MaxFrames == 2
MaxGeneral == 1
MaxObs == 2
MaxObsSched == 1
MaxSeq == 3
MaxReq == 2
MaxLoopQ == 2
MaxRt == 2
MaxPosters == 2
MaxEv == 2
MaxScans == 2
MaxAsync == 2
MaxDom == 1
MaxTimers == 2
MaxInterval == 2
MaxStrings == 2
MaxCtxt == 2
MaxCalls == 3
MaxChildren == 4
MaxHandle == 2
MaxEntries == 3

CoIds == 1..MaxCo
FrameAddrs == 1..MaxFrames
ObsIds == 1..MaxObs
ReqIds == 1..MaxReq
RtIds == 1..MaxRt
PosterIds == 1..MaxPosters
EvValues == 1..MaxEv
AsyncIds == 1..MaxAsync
DomPoints == 1..MaxDom
TimerIds == 1..MaxTimers

\* ------------------------------------------------------------------------
\* Enumerations of the program
CO_STATE_READY == "READY"
CO_STATE_RUN == "RUN"
CO_STATE_WAIT == "WAIT"
CoStates == {CO_STATE_READY, CO_STATE_RUN, CO_STATE_WAIT}

NEXT_STEP_AFTER_PUSHED == "AFTER_PUSHED"
NEXT_STEP_ON_POPPING == "ON_POPPING"
NEXT_STEP_RERUN == "RERUN"
NEXT_STEP_SELECT_CHILD == "SELECT_CHILD"

STACK_STAGE_FIRST_ROUND == "FIRST_ROUND"
STACK_STAGE_EVENT_LOOP == "EVENT_LOOP"

REQ_TYPE_RAW == "RAW"
REQ_TYPE_SYNC == "SYNC"
REQ_TYPE_ASYNC == "ASYNC"
ReqTypes == {REQ_TYPE_RAW, REQ_TYPE_SYNC, REQ_TYPE_ASYNC}

REQ_STATE_PENDING == "PENDING"
REQ_STATE_ACTIVATING == "ACTIVATING"
REQ_STATE_HIBERNATING == "HIBERNATING"
REQ_STATE_CANCELLED == "CANCELLED"
REQ_STATE_DYING == "DYING"

ObsKinds == {"common", "dynamic", "native"}

\* the null pointer (coroutine, frame address)
NULL == 0

\* the symbol variables of a frame: ?, @, !, %, < and two reserved ones
Symbols == {"?", "@", "!", "%", "<", "reserved1", "reserved2"}

\* a variant is its type and v: the value of an unsigned integer, the
\* number of members of an object, the DOM point of an elements reference
PURC_VARIANT_INVALID == [type |-> "invalid", v |-> 0]

\* the elements of a document: the tag decides the handlers of the frame
\* (pcintr_get_ops_by_element); a match element has a for attribute (a
\* string, here number v of the strings of the model, or none) and may
\* carry exclusively or excl.  NoElement is the null element.
NoElement == [tag |-> "", for |-> PURC_VARIANT_INVALID, excl |-> ""]
PlainElements == {[NoElement EXCEPT !.tag = "element"]}
MatchElements ==
    {[tag |-> "match", for |-> f, excl |-> x] :
        f \in {PURC_VARIANT_INVALID} \cup
                {[type |-> "string", v |-> n] : n \in 1..MaxStrings},
        x \in {"", "exclusively", "excl"}}

\* a null scratch context
NoCtxt == [id |-> NULL, is_exclusively |-> FALSE, matched |-> FALSE]

\* ------------------------------------------------------------------------
\* State
VARIABLES
    ndebug,             \* TRUE: PC_ASSERT compiled out; FALSE: it aborts
    aborted,            \* "" while the process runs, else why it died
    pc,                 \* position of the loop thread
    loopq,              \* callbacks dispatched to the run loop, FIFO
    stop_req,           \* purc_runloop_stop has been called
    coroutines,         \* heap->coroutines, in list order
    running_coroutine,  \* heap->running_coroutine
    life,               \* per coroutine: "none", "alive", "destroyed"
    doc,                \* per coroutine: the kind of document loaded
    co_state,           \* co->state
    frames,             \* co->stack.frames, bottom frame last
    exited,             \* co->stack.exited
    except,             \* co->stack.except
    waits,              \* co->waits
    stage,              \* co->stack.stage
    observers,          \* per coroutine and kind: the observer list
    errcode,            \* inst->errcode (thread local error)
    rc,                 \* the run_coroutines pass in progress
    hm,                 \* the pcintr_handle_message call in progress
    reqs,               \* the requests ever created
    pending_reqs,
    active_reqs,
    cancelled_reqs,
    hibernating_reqs,
    dying_reqs,
    hist,               \* observations recorded for the properties
    routines,           \* heap->routines, FIFO
    posters,            \* per posting thread: its place in pcintr_post_routine
    rt_posted,          \* number of routines posted so far
    rt_ran,             \* the routines run by the loop, in the order run
    ev_value,           \* what the observed expression evaluates to now
    ev_last,            \* vcm_ev->last_value, NULL until it is set
    ev_scans,           \* number of scans of the event timer so far
    vcm_ev,             \* vcm_ev->const_value, and the calls of the two
                        \* evaluating getters with what they returned
    match_sel,          \* a match frame seen alone: the child nodes of its
                        \* element, ctxt->matched, ctxt->curr, its next
                        \* step, what select_child returned so far and the
                        \* child frames pushed
    rdr,                \* the last purc_attach_vdom_to_renderer call: its
                        \* arguments, the requests sent to the renderer in
                        \* order, the handles set on the document and the
                        \* result
    exe_key,            \* an instance of the KEY executor, what its
                        \* iterator gave so far and what choose returned
    async,              \* stack->async_request_ids of each coroutine, and
                        \* the pcfetcher_cancel_async calls per request id
    timers,             \* the objects of $TIMERS and their backing timers
    ctxts               \* the scratch contexts allocated so far, and the
                        \* runs of the destructor on each

loopVars == <<pc, loopq, stop_req, rc, hm>>
coVars == <<coroutines, running_coroutine, life, doc, co_state, frames,
            exited, except, waits, stage, errcode>>
reqVars == <<reqs, pending_reqs, active_reqs, cancelled_reqs,
             hibernating_reqs, dying_reqs>>
rtVars == <<routines, posters, rt_posted, rt_ran>>
libVars == <<match_sel, rdr, exe_key>>
evVars == <<ev_value, ev_last, ev_scans, vcm_ev, libVars>>
extVars == <<rtVars, evVars, timers, ctxts>>
vars == <<ndebug, aborted, loopVars, coVars, observers, reqVars, hist,
          extVars, async>>

\* ------------------------------------------------------------------------
\* Helpers

\* list_del(&x->node) on a list kept as a sequence
SeqRemove(s, x) == SelectSeq(s, LAMBDA y : y # x)

\* pcintr_stack_get_bottom_frame: the tail of stack->frames, or NULL
BottomAddr(c) ==
    IF frames[c] = <<>> THEN NULL ELSE frames[c][Len(frames[c])].addr

\* calloc of a frame: the first address of the coroutine not in use
UsedAddrs(fs) == {fs[i].addr : i \in 1..Len(fs)}
FreshAddr(fs) ==
    LET free == FrameAddrs \ UsedAddrs(fs)
    IN  IF free = {} THEN NULL
        ELSE CHOOSE a \in free : \A b \in free : a <= b

\* a frame as calloc leaves it in push_stack_frame_normal: next_step is
\* zero, edom_element and the symbol variables are null
NewFrame(a) ==
    [addr |-> a, next_step |-> NEXT_STEP_AFTER_PUSHED, obs |-> NULL,
     edom |-> NULL, sym |-> [s \in Symbols |-> PURC_VARIANT_INVALID],
     ops |-> "", pos |-> NoElement, ctxt |-> NoCtxt,
     result_from_child |-> PURC_VARIANT_INVALID]

\* an init_symvals_with_vals that leaves out init_at_symval
init_symvals_with_vals_without_at(fs) ==
    [s \in Symbols |->
        IF s = "%" THEN [type |-> "ulongint", v |-> 0]
        ELSE IF s = "!" THEN [type |-> "object", v |-> 0]
        ELSE [type |-> "undefined", v |-> 0]]

\* init_symvals_with_vals of a normal frame pushed on the frames fs: all
\* undefined, then % is unsigned 0, @ an elements reference when there is
\* a parent frame with a DOM point (init_at_symval), ! an empty object
init_symvals_with_vals(fs) ==
    LET parent_edom == IF fs = <<>> THEN NULL ELSE fs[Len(fs)].edom
    IN  [s \in Symbols |->
            IF s = "%" THEN [type |-> "ulongint", v |-> 0]
            ELSE IF s = "@" /\ parent_edom # NULL
            THEN [type |-> "elements", v |-> parent_edom]
            ELSE IF s = "!" THEN [type |-> "object", v |-> 0]
            ELSE [type |-> "undefined", v |-> 0]]

\* a push_stack_frame_normal that links the frame with list_add, at the
\* head of stack->frames
push_stack_frame_normal_at_head(fs, a) ==
    <<[NewFrame(a) EXCEPT !.sym = init_symvals_with_vals(fs)]>> \o fs

\* push_stack_frame_normal with every allocation successful: the frame
\* joins the tail of the list and its symbol variables are initialised
push_stack_frame_normal(fs, a) ==
    Append(fs, [NewFrame(a) EXCEPT !.sym = init_symvals_with_vals(fs)])

\* a place of $TIMERS without an object, and an object without __handle
NoTimerObj == [in |-> FALSE, interval |-> 0, active |-> "off"]
NoTimer == [made |-> FALSE, live |-> 0, interval |-> 0, running |-> FALSE,
            armed |-> 0, listener |-> FALSE, fires |-> 0]

NoObservers == [k \in ObsKinds |-> <<>>]
NrObservers(c) ==
    Len(observers[c]["common"]) + Len(observers[c]["dynamic"])
        + Len(observers[c]["native"])

\* a sub-type is a C string or NULL: the empty sequence is NULL, <<s>> the
\* string s
NoSubType == <<>>
SubTypeStrings == {"click", "click.primary"}
SubTypePatterns == {"click", "click\\..+"}

\* pcregex_is_match(pattern, str): a null pattern matches anything, the
\* pattern click\..+ matches click.primary and neither click nor a null
\* string, any other pattern is an exact string
pcregex_is_match(pattern, str) ==
    IF pattern = NoSubType THEN TRUE
    ELSE IF str = NoSubType THEN FALSE
    ELSE IF pattern[1] = "click\\..+" THEN str[1] = "click.primary"
    ELSE pattern[1] = str[1]

\* release_observer: the callbacks it makes for observer o, in call order:
\* on_revoke if the observer has one, then on_forget of the native
\* entity's ops if the observed value is native and its ops have one
release_observer(o) ==
    (IF o.on_revoke
     THEN <<[cb |-> "on_revoke", id |-> o.id, type |-> o.atom,
             sub_type |-> o.sub_type]>>
     ELSE <<>>)
    \o (IF o.observed = "native" /\ o.on_forget
        THEN <<[cb |-> "on_forget", id |-> o.id, type |-> o.atom,
                sub_type |-> o.sub_type]>>
        ELSE <<>>)

\* a free_observer_list that walks the list from its first entry
RECURSIVE free_observer_list_forward(_)
free_observer_list_forward(lst) ==
    IF lst = <<>> THEN <<>>
    ELSE release_observer(Head(lst)) \o free_observer_list_forward(Tail(lst))

\* free_observer_list: list_for_each_entry_reverse_safe, each entry is
\* unlinked and freed by free_observer
RECURSIVE free_observer_list(_)
free_observer_list(lst) ==
    IF lst = <<>> THEN <<>>
    ELSE release_observer(lst[Len(lst)])
            \o free_observer_list(SubSeq(lst, 1, Len(lst) - 1))

\* stack_release: the three observer lists of the stack of coroutine c
stack_release_observers(c) ==
    free_observer_list(observers[c]["common"])
        \o free_observer_list(observers[c]["dynamic"])
        \o free_observer_list(observers[c]["native"])

\* the callbacks made while the coroutines cos are destroyed in list order
RECURSIVE ReleasedBy(_)
ReleasedBy(cos) ==
    IF cos = <<>> THEN <<>>
    ELSE stack_release_observers(Head(cos)) \o ReleasedBy(Tail(cos))

NoReq == [type |-> "", owner |-> NULL, frame |-> NULL, state |-> "",
          refc |-> 0, freed |-> FALSE, cancels |-> 0, callbacks |-> 0]

\* purc_runloop_dispatch: the callback is queued behind those dispatched
\* before it
purc_runloop_dispatch(q, cb) == Append(q, cb)

RunCoroutinesItem ==
    [kind |-> "run_coroutines", co |-> NULL, src |-> "", atom |-> "",
     seq |-> 0]
NoPass == [todo |-> <<>>, readies |-> 0, waits |-> 0, stepped |-> <<>>,
           ready0 |-> {}]
\* pcvcm_to_expression_variable: calloc leaves const_value NULL; calls
\* and evals count the calls of a getter and the pcvcm_eval calls it made,
\* ret is the value the last call returned, first the value the first
\* evaluation of the constant getter gave
NoVcmEv == [const_value |-> NULL, const_calls |-> 0, const_evals |-> 0,
            first |-> NULL, calls |-> 0, evals |-> 0, ret |-> NULL]

\* a rule of the KEY executor: without a string matching expression every
\* key satisfies it, else the keys in keys do
NoRule == [has_smle |-> FALSE, keys |-> {}, for_clause |-> ""]

\* no instance of the KEY executor: the fields of struct
\* pcexec_exe_key_inst after calloc (cache FALSE: PURC_VARIANT_INVALID),
\* ok: whether the last call returned the iterator, yielded: the current
\* value at each return of the iterator, read and last: it_value was called
\* on the current position and what it returned, chosen: the array choose
\* returned
NoKeyInst == [type |-> "", input |-> <<>>, rule |-> NoRule,
              result_set |-> <<>>, curr |-> 0, value |-> <<>>,
              cache |-> FALSE, err |-> "", ok |-> FALSE, begun |-> FALSE,
              read |-> FALSE, last |-> <<>>, yielded |-> <<>>,
              chose |-> FALSE, chosen |-> <<>>]

\* no call of purc_attach_vdom_to_renderer yet
NoRdr == [called |-> FALSE, target_workspace |-> FALSE,
          target_window |-> FALSE, target_tabpage |-> FALSE,
          caps_workspace |-> FALSE, session_handle |-> 0, sent |-> <<>>,
          workspace |-> 0, window |-> 0, tabpage |-> 0, ret |-> FALSE]

\* no match frame yet
NoSel == [children |-> <<>>, matched |-> FALSE, curr |-> NULL,
          next_step |-> "", calls |-> 0, yielded |-> <<>>, pushed |-> <<>>]

NoMsg == [co |-> NULL, src |-> "", atom |-> "", sub |-> NoSubType, seq |-> 0, p |-> NULL,
          n |-> NULL, phase |-> "", match0 |-> {}, pushed |-> <<>>]
NoCall == [op |-> "", req |-> NULL, from |-> ""]

\* ------------------------------------------------------------------------
\* pcintr_init_instance: the heap after construction
Init ==
    /\ ndebug \in BOOLEAN
    /\ aborted = ""
    /\ pc = "init"
    /\ loopq = <<>>
    /\ stop_req = FALSE
    /\ coroutines = <<>>
    /\ running_coroutine = NULL
    /\ life = [c \in CoIds |-> "none"]
    /\ doc = [c \in CoIds |-> "none"]
    /\ co_state = [c \in CoIds |-> CO_STATE_READY]
    /\ frames = [c \in CoIds |-> <<>>]
    /\ exited = [c \in CoIds |-> 0]
    /\ except = [c \in CoIds |-> 0]
    /\ waits = [c \in CoIds |-> 0]
    /\ stage = [c \in CoIds |-> STACK_STAGE_FIRST_ROUND]
    /\ observers = [c \in CoIds |-> NoObservers]
    /\ errcode = 0
    /\ rc = NoPass
    /\ hm = NoMsg
    /\ reqs = [r \in ReqIds |-> NoReq]
    /\ pending_reqs = <<>>
    /\ active_reqs = <<>>
    /\ cancelled_reqs = <<>>
    /\ hibernating_reqs = <<>>
    /\ dying_reqs = <<>>
    /\ hist = [trace |-> [c \in CoIds |-> <<>>],
               term_obs |-> [c \in CoIds |-> -1],
               on_terminated |-> [c \in CoIds |-> 0],
               on_cleanup |-> [c \in CoIds |-> 0],
               req_call |-> NoCall,
               revoked |-> <<>>,
               hooks |-> [c \in CoIds |-> <<>>]]
    /\ routines = <<>>
    /\ posters = [p \in PosterIds |-> "idle"]
    /\ rt_posted = 0
    /\ rt_ran = <<>>
    /\ ev_value = 1
    /\ ev_last = NULL
    /\ ev_scans = 0
    /\ vcm_ev = NoVcmEv
    /\ match_sel = NoSel
    /\ rdr = NoRdr
    /\ exe_key = NoKeyInst
    /\ async = [ids |-> [c \in CoIds |-> <<>>],
                cancels |-> [i \in AsyncIds |-> 0],
                removed |-> {}]
    /\ timers = [obj |-> [i \in TimerIds |-> NoTimerObj],
                 tm |-> [i \in TimerIds |-> NoTimer]]
    /\ ctxts = [made |-> 0, destroyed |-> [i \in 1..MaxCtxt |-> 0]]

\* ------------------------------------------------------------------------
\* purc_load_hvml_from_rwstream_ex (success path): a coroutine in READY
\* with one frame for the document, linked at the tail of the heap's list;
\* pcintr_coroutine_ready dispatches run_coroutines to the loop.
DocKinds == {"empty", "general"}

\* pcintr_get_document_ops: what the handlers of the initial frame may
\* return.  The document without children gets a context from after_pushed,
\* no element from select_child and true from on_popping; a general
\* document may return anything.
document_ops(d) ==
    [after_pushed |-> IF d = "empty" THEN {TRUE} ELSE BOOLEAN,
     select_child |-> IF d = "empty" THEN {NoElement}
                      ELSE {NoElement} \cup PlainElements \cup MatchElements,
     on_popping |-> IF d = "empty" THEN {TRUE} ELSE BOOLEAN]

purc_load_hvml_from_rwstream_ex(c, d) ==
    /\ aborted = ""
    /\ pc = "init"
    /\ life[c] = "none"
    /\ \A b \in CoIds : b < c => life[b] # "none"
    /\ d = "general" => Cardinality({b \in CoIds : doc[b] = "general"}) < MaxGeneral
    /\ life' = [life EXCEPT ![c] = "alive"]
    /\ doc' = [doc EXCEPT ![c] = d]
    /\ co_state' = [co_state EXCEPT ![c] = CO_STATE_READY]
    /\ coroutines' = Append(coroutines, c)
    /\ stage' = [stage EXCEPT ![c] = STACK_STAGE_FIRST_ROUND]
    /\ frames' = [frames EXCEPT ![c] =
                    [push_stack_frame_normal(<<>>, FreshAddr(<<>>))
                        EXCEPT ![1].ops = "document"]]
    /\ loopq' = purc_runloop_dispatch(loopq, RunCoroutinesItem)
    /\ UNCHANGED <<ndebug, extVars, async, aborted, pc, stop_req, rc, hm, running_coroutine,
                   exited, except, waits, errcode, observers, reqVars, hist>>

\* a stack_release that calls on_cleanup whether or not it is still set
stack_release_hooks_unguarded(on_cleanup_set) == <<"on_cleanup">>

\* stack_release: on_cleanup is called when the hook is still set, and
\* cleared
stack_release_hooks(on_cleanup_set) ==
    IF on_cleanup_set THEN <<"on_cleanup">> ELSE <<>>

\* coroutine_destroy: stack_release, then the coroutine is freed
coroutine_destroy_hooks(on_cleanup_set) ==
    stack_release_hooks(on_cleanup_set) \o <<"free">>

\* terminating_co of a document loaded with both hooks: each hook is called
\* and cleared, the coroutine is unlinked and coroutine_destroy finds
\* on_cleanup cleared
terminating_co_hooks ==
    <<"on_terminated", "on_cleanup", "list_del">>
        \o coroutine_destroy_hooks(FALSE)

\* the teardown outside the scheduler (the fail labels of
\* purc_load_hvml_from_rwstream_ex, pcintr_cleanup_instance): list_del, then
\* coroutine_destroy with the hooks as they were loaded
unlink_and_destroy_hooks == <<"list_del">> \o coroutine_destroy_hooks(TRUE)

\* purc_load_hvml_from_rwstream_ex failing after the coroutine was linked
\* (fail_timer, fail_frame): the coroutine is unlinked and destroyed before
\* the call returns NULL
purc_load_hvml_fails(c) ==
    /\ aborted = ""
    /\ pc = "init"
    /\ life[c] = "none"
    /\ \A b \in CoIds : b < c => life[b] # "none"
    /\ life' = [life EXCEPT ![c] = "destroyed"]
    /\ hist' = [hist EXCEPT !.hooks[c] = @ \o unlink_and_destroy_hooks]
    /\ UNCHANGED <<ndebug, extVars, async, aborted, pc, loopq, stop_req, rc, hm,
                   running_coroutine, coroutines, doc, co_state, stage,
                   frames, exited, except, waits, errcode, observers,
                   reqVars>>

\* purc_run: enter the run loop
purc_run ==
    /\ aborted = ""
    /\ pc = "init"
    /\ pc' = "idle"
    /\ UNCHANGED <<ndebug, extVars, async, aborted, loopq, stop_req, rc, hm, coVars,
                   observers, reqVars, hist>>

\* where the loop thread goes when a dispatched callback returns: back to
\* the loop, or out of purc_runloop_run when purc_runloop_stop was called
AfterDispatch == IF stop_req THEN "exiting" ELSE "idle"

\* heap_wokenup(run_coroutines): the loop starts a pass over the coroutines
DispatchRunCoroutines ==
    /\ aborted = ""
    /\ pc = "idle"
    /\ loopq # <<>>
    /\ Head(loopq).kind = "run_coroutines"
    /\ loopq' = Tail(loopq)
    /\ rc' = [todo |-> coroutines, readies |-> 0, waits |-> 0,
              stepped |-> <<>>,
              ready0 |-> {c \in CoIds : life[c] = "alive"
                                         /\ co_state[c] = CO_STATE_READY}]
    /\ pc' = "rc"
    /\ UNCHANGED <<ndebug, extVars, async, aborted, stop_req, hm, coVars, observers,
                   reqVars, hist>>

\* ------------------------------------------------------------------------
\* Termination of a coroutine

\* co_is_observed: every path of the function returns true
co_is_observed(c) ==
    IF observers[c]["common"] # <<>> THEN TRUE
    ELSE IF observers[c]["dynamic"] # <<>> THEN TRUE
    ELSE IF observers[c]["native"] # <<>> THEN TRUE
    ELSE TRUE

\* terminating_co: TRUE when the coroutine is unlinked and destroyed, FALSE
\* when it is parked in WAIT and returned alive
terminating_co_destroys(c) == co_is_observed(c)

\* hist after terminating_co ran its hooks and coroutine_destroy
HistAfterTerminate(h, c) ==
    [h EXCEPT !.term_obs[c] = NrObservers(c),
              !.on_terminated[c] = @ + 1,
              !.on_cleanup[c] = @ + 1,
              !.revoked = stack_release_observers(c),
              !.hooks[c] = @ \o terminating_co_hooks]

\* the counters of run_coroutines after run_co returned co (alive) in st
CountPass(p, alive, st) ==
    [p EXCEPT !.readies = IF alive /\ st = CO_STATE_READY THEN @ + 1 ELSE @,
              !.waits = IF alive /\ st = CO_STATE_WAIT THEN @ + 1 ELSE @]

\* a stack_release whose loop stops one entry short of the array
StackReleased_skips_last ==
    LET gone == {c \in CoIds : life[c] = "alive" /\ life'[c] = "destroyed"}
    IN  [async EXCEPT
           !.ids = [c \in CoIds |-> IF c \in gone THEN <<>> ELSE @[c]],
           !.cancels = [i \in AsyncIds |->
               IF \E c \in gone : \E n \in 1..(Len(async.ids[c]) - 1) :
                      async.ids[c][n] = i
               THEN @[i] + Cardinality({<<c, n>> \in
                        gone \X (1..MaxAsync) :
                            n < Len(async.ids[c]) /\ async.ids[c][n] = i})
               ELSE @[i]]]

\* stack_release of the coroutines destroyed by this step: every id in
\* the array is passed to pcfetcher_cancel_async once per entry and the
\* array is cleared
StackReleased ==
    LET gone == {c \in CoIds : life[c] = "alive" /\ life'[c] = "destroyed"}
    IN  [async EXCEPT
           !.ids = [c \in CoIds |-> IF c \in gone THEN <<>> ELSE @[c]],
           !.cancels = [i \in AsyncIds |->
               IF \E c \in gone : \E n \in 1..Len(async.ids[c]) :
                      async.ids[c][n] = i
               THEN @[i] + Cardinality({<<c, n>> \in
                        gone \X (1..MaxAsync) :
                            n <= Len(async.ids[c]) /\ async.ids[c][n] = i})
               ELSE @[i]]]

\* ------------------------------------------------------------------------
\* run_coroutines, one iteration of list_for_each_safe: run_co on the next
\* coroutine of the pass.  With a bottom frame execute_on_frame turns a
\* READY coroutine to RUN, makes it current and calls the handler of the
\* frame (pc = "step"); a WAIT coroutine is skipped and counted.
run_co ==
    /\ aborted = ""
    /\ pc = "rc"
    /\ rc.todo # <<>>
    /\ LET c == Head(rc.todo)
           rest == [rc EXCEPT !.todo = Tail(rc.todo)]
       IN
       IF frames[c] # <<>>
       THEN IF co_state[c] = CO_STATE_WAIT
            THEN /\ rc' = CountPass(rest, TRUE, CO_STATE_WAIT)
                 /\ UNCHANGED <<aborted, pc, coVars, observers, hist>>
            ELSE /\ co_state' = [co_state EXCEPT ![c] = CO_STATE_RUN]
                 /\ running_coroutine' = c
                 /\ pc' = "step"
                 /\ rc' = [rest EXCEPT !.stepped = Append(@, c)]
                 /\ UNCHANGED <<aborted, coroutines, life, doc, frames,
                                exited, except, waits, stage, errcode,
                                observers, hist>>
       ELSE IF exited[c] = 1
       THEN \* terminating_co
            /\ except' = [except EXCEPT ![c] = 0]
            /\ IF terminating_co_destroys(c)
               THEN /\ life' = [life EXCEPT ![c] = "destroyed"]
                    /\ coroutines' = SeqRemove(coroutines, c)
                    /\ observers' = [observers EXCEPT ![c] = NoObservers]
                    /\ hist' = HistAfterTerminate(hist, c)
                    /\ rc' = rest
                    /\ UNCHANGED co_state
               ELSE /\ co_state' = [co_state EXCEPT ![c] = CO_STATE_WAIT]
                    /\ rc' = CountPass(rest, TRUE, CO_STATE_WAIT)
                    /\ UNCHANGED <<life, coroutines, observers, hist>>
            /\ UNCHANGED <<aborted, pc, running_coroutine, doc, frames,
                           exited, waits, stage, errcode>>
       ELSE \* PC_ASSERT(co->state == CO_STATE_WAIT)
            IF co_state[c] # CO_STATE_WAIT /\ ~ndebug
            THEN /\ aborted' = "run_co: state is not WAIT"
                 /\ UNCHANGED <<pc, rc, coVars, observers, hist>>
            ELSE /\ rc' = CountPass(rest, TRUE, co_state[c])
                 /\ UNCHANGED <<aborted, pc, coVars, observers, hist>>
    /\ UNCHANGED <<ndebug, extVars, loopq, stop_req, hm, reqVars>>
    /\ async' = StackReleased

\* ------------------------------------------------------------------------
\* The frame step.  The handler of the bottom frame has returned; the rest
\* of execute_one_step_on_frame, execute_on_frame and the counting of
\* run_coroutines follow.  fr is the stack after the handler's effect, err
\* the thread-local error after it, rdr_ok the result of
\* pcintr_rdr_page_control_load.
MaxTrace == 4

\* a step that leaves out the assignment of READY after the handler
StateAfterStep_keeps_run(c, no_frames, parked, destroyed) ==
    IF parked THEN CO_STATE_WAIT
    ELSE IF no_frames /\ ~destroyed THEN CO_STATE_WAIT
    ELSE CO_STATE_RUN

\* a step that parks every coroutine with waits > 0, frames left or not
StateAfterStep_parks_on_waits(c, no_frames, parked, destroyed) ==
    IF parked \/ waits[c] > 0 THEN CO_STATE_WAIT
    ELSE IF no_frames /\ ~destroyed THEN CO_STATE_WAIT
    ELSE CO_STATE_READY

\* co->state when the step returns: READY (line 1311) unless the stack is
\* empty and the coroutine is parked, by the step or by terminating_co
StateAfterStep(c, no_frames, parked, destroyed) ==
    IF parked THEN CO_STATE_WAIT
    ELSE IF no_frames /\ ~destroyed THEN CO_STATE_WAIT
    ELSE CO_STATE_READY

ExecuteOneStepTail(c, step, fr, err, rdr_ok) ==
    LET exc1 == IF err THEN 1 ELSE except[c]
        no_frames == fr = <<>>
        rdr_fail == stage[c] = STACK_STAGE_FIRST_ROUND /\ ~rdr_ok
        parked == no_frames /\ ~rdr_fail /\ exc1 = 0 /\ waits[c] > 0
        exiting == no_frames /\ ~parked
        term == exiting /\ terminating_co_destroys(c)
        st == StateAfterStep(c, no_frames, parked, term)
        h1 == [hist EXCEPT
                 !.trace[c] = IF doc[c] = "empty" /\ Len(@) < MaxTrace
                              THEN Append(@, step) ELSE @]
    IN
    IF err /\ except[c] = 1 /\ ~ndebug
    THEN \* PC_ASSERT(co->stack.except == 0)
         /\ aborted' = "step: error while an exception is pending"
         /\ frames' = [frames EXCEPT ![c] = fr]
         /\ co_state' = [co_state EXCEPT ![c] = CO_STATE_READY]
         /\ errcode' = 1
         /\ UNCHANGED <<pc, rc, coroutines, running_coroutine, life, doc,
                        exited, except, waits, stage, observers, hist>>
    ELSE /\ errcode' = 0
         /\ frames' = [frames EXCEPT ![c] = fr]
         /\ co_state' = [co_state EXCEPT ![c] = st]
         /\ stage' = IF no_frames /\ ~rdr_fail
                     THEN [stage EXCEPT ![c] = STACK_STAGE_EVENT_LOOP]
                     ELSE stage
         /\ exited' = IF exiting THEN [exited EXCEPT ![c] = 1] ELSE exited
         /\ except' = IF exiting THEN [except EXCEPT ![c] = 0]
                      ELSE [except EXCEPT ![c] = exc1]
         /\ life' = IF term THEN [life EXCEPT ![c] = "destroyed"] ELSE life
         /\ coroutines' = IF term THEN SeqRemove(coroutines, c)
                          ELSE coroutines
         /\ observers' = IF term THEN [observers EXCEPT ![c] = NoObservers]
                         ELSE observers
         /\ hist' = IF term THEN HistAfterTerminate(h1, c) ELSE h1
         /\ running_coroutine' = NULL
         /\ rc' = CountPass(rc, ~term, st)
         /\ pc' = "rc"
         /\ UNCHANGED <<aborted, doc, waits>>

\* the bottom frame of a stack with a field replaced, popped, or with a
\* child pushed on top of it
Bottom(c) == frames[c][Len(frames[c])]
WithBottom(c, f) == [frames[c] EXCEPT ![Len(frames[c])] = f]
\* a pop_stack_frame that unlinks the first frame of the list
Popped_from_head(c) == Tail(frames[c])
\* pop_stack_frame: the tail of stack->frames is unlinked and destroyed
Popped(c) == SubSeq(frames[c], 1, Len(frames[c]) - 1)

InStep(c) ==
    /\ aborted = ""
    /\ pc = "step"
    /\ running_coroutine = c
    /\ frames[c] # <<>>

\* an after_pushed that goes to SELECT_CHILD whatever the handler returned
after_pushed_next_step_ignores_ctxt(has_ctxt) == NEXT_STEP_SELECT_CHILD

\* after_pushed (interpreter.c): next_step after the handler of the frame
\* returned a context or null
after_pushed_next_step(has_ctxt) ==
    IF has_ctxt THEN NEXT_STEP_SELECT_CHILD ELSE NEXT_STEP_ON_POPPING

\* after_pushed: a null context sends the frame to ON_POPPING
after_pushed(c, ctxt, rdr_ok) ==
    /\ InStep(c)
    /\ rdr_ok \/ stage[c] = STACK_STAGE_FIRST_ROUND
    /\ Bottom(c).next_step = NEXT_STEP_AFTER_PUSHED
    /\ ctxt \in document_ops(doc[c]).after_pushed
    /\ Bottom(c).ops # "match"
    /\ ExecuteOneStepTail(c, NEXT_STEP_AFTER_PUSHED,
          WithBottom(c, [Bottom(c) EXCEPT !.next_step =
              after_pushed_next_step(ctxt)]),
          errcode # 0, rdr_ok)
    /\ UNCHANGED <<ndebug, extVars, loopq, stop_req, hm, reqVars>>
    /\ async' = StackReleased

\* on_select_child: no element sends the frame to ON_POPPING; an element
\* pushes a child frame (push_stack_frame_normal fails when out of memory)
on_select_child(c, element, rdr_ok) ==
    /\ InStep(c)
    /\ rdr_ok \/ stage[c] = STACK_STAGE_FIRST_ROUND
    /\ Bottom(c).next_step = NEXT_STEP_SELECT_CHILD
    /\ element \in document_ops(doc[c]).select_child
    /\ (Bottom(c).ops = "match" /\ ~Bottom(c).ctxt.matched)
          => element = NoElement
    /\ LET a == FreshAddr(frames[c])
           sel == Bottom(c)
       IN  IF element = NoElement
           THEN ExecuteOneStepTail(c, NEXT_STEP_SELECT_CHILD,
                    WithBottom(c, [Bottom(c) EXCEPT
                                    !.next_step = NEXT_STEP_ON_POPPING]),
                    errcode # 0, rdr_ok)
           ELSE IF a = NULL
           THEN ExecuteOneStepTail(c, NEXT_STEP_SELECT_CHILD,
                    WithBottom(c, sel), TRUE, rdr_ok)
           ELSE ExecuteOneStepTail(c, NEXT_STEP_SELECT_CHILD,
                    [push_stack_frame_normal(WithBottom(c, sel), a) EXCEPT
                        ![Len(frames[c]) + 1].ops = element.tag,
                        ![Len(frames[c]) + 1].pos = element,
                        ![Len(frames[c]) + 1].edom = sel.edom],
                    errcode # 0, rdr_ok)
    /\ UNCHANGED <<ndebug, extVars, loopq, stop_req, hm, reqVars>>
    /\ async' = StackReleased

\* on_rerun: PC_ASSERT(ok) with ok false when the element has no rerun
\* handler or the handler returns false
on_rerun(c, ok, rdr_ok) ==
    /\ InStep(c)
    /\ rdr_ok \/ stage[c] = STACK_STAGE_FIRST_ROUND
    /\ Bottom(c).next_step = NEXT_STEP_RERUN
    /\ IF ~ok /\ ~ndebug
       THEN /\ aborted' = "on_rerun: not ok"
            /\ UNCHANGED <<pc, rc, coVars, observers, hist>>
       ELSE ExecuteOneStepTail(c, NEXT_STEP_RERUN,
                WithBottom(c, [Bottom(c) EXCEPT
                                !.next_step = NEXT_STEP_SELECT_CHILD]),
                errcode # 0, rdr_ok)
    /\ UNCHANGED <<ndebug, extVars, loopq, stop_req, hm, reqVars>>
    /\ async' = StackReleased

\* on_popping: true pops the bottom frame, false asks for a RERUN
on_popping(c, ok, rdr_ok) ==
    /\ InStep(c)
    /\ rdr_ok \/ stage[c] = STACK_STAGE_FIRST_ROUND
    /\ Bottom(c).next_step = NEXT_STEP_ON_POPPING
    /\ ok \in document_ops(doc[c]).on_popping
    /\ Bottom(c).ops # "match"
    /\ ExecuteOneStepTail(c, NEXT_STEP_ON_POPPING,
          IF ok THEN Popped(c)
          ELSE WithBottom(c, [Bottom(c) EXCEPT !.next_step = NEXT_STEP_RERUN]),
          errcode # 0, rdr_ok)
    /\ UNCHANGED <<ndebug, extVars, loopq, stop_req, hm, reqVars>>
    /\ async' = StackReleased

\* ------------------------------------------------------------------------
\* run_coroutines after the last coroutine: re-post the pass when a
\* coroutine is READY, stop the loop when none is READY or WAIT; then
\* return to the caller (the loop, or pcintr_handle_message)
\* run_coroutines, after the loop: pcintr_coroutine_ready when a coroutine
\* is READY, else purc_runloop_stop when none is in WAIT
Reposts(readies, nwaits) == readies > 0

\* a pass with the test of waits inverted
StopsLoop_inverted(readies, nwaits) == readies = 0 /\ nwaits # 0

StopsLoop(readies, nwaits) == readies = 0 /\ nwaits = 0

run_coroutines_end ==
    /\ aborted = ""
    /\ pc = "rc"
    /\ rc.todo = <<>>
    /\ loopq' = IF Reposts(rc.readies, rc.waits)
                THEN purc_runloop_dispatch(loopq, RunCoroutinesItem)
                ELSE loopq
    /\ stop_req' = IF StopsLoop(rc.readies, rc.waits) THEN TRUE ELSE stop_req
    /\ pc' = IF hm.co # NULL THEN "hm"
             ELSE IF stop_req' THEN "exiting" ELSE "idle"
    /\ UNCHANGED <<ndebug, extVars, async, aborted, rc, hm, coVars, observers, reqVars, hist>>

\* purc_run after purc_runloop_run returned: the queues must be empty
purc_run_return ==
    /\ aborted = ""
    /\ pc = "exiting"
    /\ IF ~ndebug /\ routines # <<>>
       THEN aborted' = "purc_run: routines is not empty" /\ pc' = pc
       ELSE IF ~ndebug /\ (pending_reqs # <<>> \/ active_reqs # <<>>
                      \/ cancelled_reqs # <<>> \/ hibernating_reqs # <<>>
                      \/ dying_reqs # <<>>)
       THEN aborted' = "purc_run: a queue is not empty" /\ pc' = pc
       ELSE pc' = "stopped" /\ aborted' = aborted
    /\ UNCHANGED <<ndebug, extVars, async, loopq, stop_req, rc, hm, coVars, observers,
                   reqVars, hist>>

\* ------------------------------------------------------------------------
\* Calls of the element handlers into the interpreter while a step runs

\* the handlers of the empty document call nothing
InHandler(c) == InStep(c) /\ doc[c] = "general"

\* list_for_each_entry_safe over a list of observers, by observer id; NULL
\* stands for the head of the list, where the walk ends
ListFirst(lst) == IF lst = <<>> THEN NULL ELSE lst[1].id
ListNext(lst, i) ==
    LET at == CHOOSE m \in 1..Len(lst) : lst[m].id = i
    IN  IF at = Len(lst) THEN NULL ELSE lst[at + 1].id
Linked(lst, i) == \E m \in 1..Len(lst) : lst[m].id = i
Entry(lst, i) == lst[CHOOSE m \in 1..Len(lst) : lst[m].id = i]

FreeObsIds(c) ==
    ObsIds \ UNION {{observers[c][k][i].id : i \in 1..Len(observers[c][k])}
                    : k \in ObsKinds}

\* the message types a document observes
MsgAtoms == {"change", "other"}

\* pcintr_register_observer: the list an observer is linked in, chosen by
\* the type of the observed value
register_observer_list_native_as_common(kind) ==
    IF kind = "dynamic" THEN "dynamic"
    ELSE "common"

register_observer_list(kind) ==
    IF kind = "dynamic" THEN "dynamic"
    ELSE IF kind = "native" THEN "native"
    ELSE "common"

\* get_observer_list: the list searched for the observers of a value
get_observer_list(kind) ==
    IF kind = "dynamic" THEN "dynamic"
    ELSE IF kind = "native" THEN "native"
    ELSE "common"

\* pcintr_register_observer + add_observer_into_list; the observer keeps
\* the observed value, the message type, a copy of the sub-type and the
\* on_revoke callback; on_forget tells whether the ops of the observed
\* native entity have an on_forget.  calloc returns observer i, the first
\* one not in use.
pcintr_register_observer(c, kind, atom, sub_type, on_revoke, on_forget, i) ==
    /\ InHandler(c)
    /\ i \in FreeObsIds(c)
    /\ \A y \in FreeObsIds(c) : i <= y
    /\ observers' = [observers EXCEPT ![c][register_observer_list(kind)] =
                         Append(@, [id |-> i, observed |-> kind,
                                    atom |-> atom, sub_type |-> sub_type,
                                    on_revoke |-> on_revoke,
                                    on_forget |-> on_forget])]
    /\ waits' = [waits EXCEPT ![c] = @ + 1]
    /\ UNCHANGED <<ndebug, extVars, async, aborted, loopVars, coroutines, running_coroutine,
                   life, doc, co_state, frames, exited, except, stage,
                   errcode, reqVars, hist>>

\* pcintr_revoke_observer on an observer of the current coroutine
pcintr_revoke_observer(c, kind, i) ==
    /\ InHandler(c)
    /\ \E n \in 1..Len(observers[c][kind]) : observers[c][kind][n].id = i
    /\ observers' = [observers EXCEPT ![c][kind] =
                        SelectSeq(@, LAMBDA o : o.id # i)]
    /\ hist' = [hist EXCEPT !.revoked =
                   release_observer(Entry(observers[c][kind], i))]
    /\ IF waits[c] < 1 /\ ~ndebug
       THEN aborted' = "revoke_observer: waits < 1" /\ waits' = waits
       ELSE aborted' = aborted /\ waits' = [waits EXCEPT ![c] = @ - 1]
    /\ UNCHANGED <<ndebug, extVars, async, loopVars, coroutines, running_coroutine,
                   life, doc, co_state, frames, exited, except, stage,
                   errcode, reqVars>>

\* purc_set_error by a failing handler
purc_set_error(c) ==
    /\ InHandler(c)
    /\ errcode = 0
    /\ errcode' = 1
    /\ UNCHANGED <<ndebug, extVars, async, aborted, loopVars, coroutines, running_coroutine,
                   life, doc, co_state, frames, exited, except, waits, stage,
                   observers, reqVars, hist>>

\* the dispatch order of the messages queued or being handled: a message
\* gets the number after the latest of them
NextSeq ==
    LET used == {loopq[i].seq : i \in 1..Len(loopq)} \cup {hm.seq}
    IN  1 + CHOOSE m \in used : \A x \in used : x <= m

\* a dispatch that puts the message before the callbacks already queued
pcintr_dispatch_message_ex_front(t, k, a, s) ==
    /\ aborted = ""
    /\ \/ pc = "idle"
       \/ pc = "step" /\ doc[running_coroutine] = "general"
    /\ life[t] = "alive"
    /\ observers[t][get_observer_list(k)] # <<>>
    /\ Len(loopq) < MaxLoopQ
    /\ NextSeq <= MaxSeq
    /\ loopq' = <<[kind |-> "handle_message", co |-> t, src |-> k,
                   atom |-> a, sub |-> s, seq |-> NextSeq]>> \o loopq
    /\ UNCHANGED <<ndebug, extVars, async, aborted, pc, stop_req, rc, hm, coVars, observers,
                   reqVars, hist>>

\* pcintr_dispatch_message_ex: a message of type a for coroutine t with
\* source value of kind k is dispatched to the loop, by a handler or by a
\* callback of the loop (timer, listener) while t is alive
pcintr_dispatch_message_ex(t, k, a, s) ==
    /\ aborted = ""
    /\ \/ pc = "idle"
       \/ pc = "step" /\ doc[running_coroutine] = "general"
    /\ life[t] = "alive"
    /\ observers[t][get_observer_list(k)] # <<>>
    /\ Len(loopq) < MaxLoopQ
    /\ NextSeq <= MaxSeq
    /\ loopq' = purc_runloop_dispatch(loopq,
                    [kind |-> "handle_message", co |-> t, src |-> k,
                     atom |-> a, sub |-> s, seq |-> NextSeq])
    /\ UNCHANGED <<ndebug, extVars, async, aborted, pc, stop_req, rc, hm, coVars, observers,
                   reqVars, hist>>

\* an is_observer_match that compares the sub-type pointers only
is_observer_match_by_pointer(o, observed, type_atom, sub_type) ==
    IF o.observed = observed /\ o.atom = type_atom
    THEN o.sub_type = NoSubType /\ sub_type = NoSubType
    ELSE FALSE

\* is_observer_match: the same observed value and message type, and the
\* sub-types are the same pointer (both NULL in the model, the observer
\* keeps its own copy of a string) or the observer's matches as a pattern
is_observer_match(o, observed, type_atom, sub_type) ==
    IF o.observed = observed /\ o.atom = type_atom
    THEN (o.sub_type = NoSubType /\ sub_type = NoSubType)
            \/ pcregex_is_match(o.sub_type, sub_type)
    ELSE FALSE

\* pcintr_handle_message, entry: the walk over the list of the source's
\* kind starts with p the first observer and n the one after it
DispatchHandleMessage(ub) ==
    /\ aborted = ""
    /\ pc = "idle"
    /\ loopq # <<>>
    /\ Head(loopq).kind = "handle_message"
    /\ loopq' = Tail(loopq)
    /\ LET t == Head(loopq).co
           k == Head(loopq).src
           a == Head(loopq).atom
           s == Head(loopq).sub
           lst == observers[t][get_observer_list(k)]
       IN  IF life[t] # "alive"
           THEN \* msg->stack was freed with its coroutine
                /\ aborted' = IF ub = "crash"
                              THEN "handle_message: stack freed" ELSE aborted
                /\ UNCHANGED <<pc, hm>>
           ELSE /\ hm' = [co |-> t, src |-> k, atom |-> a, sub |-> s,
                          seq |-> Head(loopq).seq,
                          p |-> ListFirst(lst),
                          n |-> IF lst = <<>> THEN NULL
                                ELSE ListNext(lst, ListFirst(lst)),
                          phase |-> "body",
                          match0 |-> {lst[m].id : m \in
                                        {x \in 1..Len(lst) :
                                           is_observer_match(lst[x], k, a, s)}},
                          pushed |-> <<>>]
                /\ pc' = "hm"
                /\ UNCHANGED aborted
    /\ UNCHANGED <<ndebug, extVars, async, stop_req, rc, coVars, observers, reqVars, hist>>

\* the frame pcintr_handle_message pushes for observer o: ops, scope, pos
\* and edom_element are the observer's, next_step is AFTER_PUSHED; the
\* observers of the model are registered without a DOM point.  The result
\* is the frames of the stack after the push.
ObserverFrame(fs, a, o) ==
    [push_stack_frame_normal(fs, a) EXCEPT
        ![Len(fs) + 1].obs = o.id,
        ![Len(fs) + 1].ops = "element",
        ![Len(fs) + 1].pos = [NoElement EXCEPT !.tag = "element"]]

\* hm after "p = n, n = list_next_entry(n)" on list lst
Advance(h, lst) ==
    [h EXCEPT !.p = h.n,
              !.n = IF h.n = NULL THEN NULL ELSE ListNext(lst, h.n),
              !.phase = "body"]

\* pcintr_handle_message, the body of list_for_each_entry_safe and the
\* step to the next entry.  A matching observer pushes a frame, makes the
\* coroutine READY and runs run_coroutines at once; when that pass has
\* returned (phase "next") the walk goes on from n, the entry saved before
\* the body ran.
pcintr_handle_message(ub) ==
    /\ aborted = ""
    /\ pc = "hm"
    /\ LET t == hm.co
           lst == observers[t][get_observer_list(hm.src)]
       IN
       IF hm.phase = "next"
       THEN IF hm.n # NULL /\ (life[t] # "alive" \/ ~Linked(lst, hm.n))
            THEN \* n (or the whole stack) was freed by the nested pass
                 /\ IF ub = "crash"
                    THEN aborted' = "handle_message: observer freed"
                         /\ UNCHANGED <<hm, pc>>
                    ELSE aborted' = aborted /\ hm' = NoMsg
                         /\ pc' = AfterDispatch
                 /\ UNCHANGED <<rc, coVars>>
            ELSE /\ hm' = Advance(hm, lst)
                 /\ UNCHANGED <<aborted, pc, rc, coVars>>
       ELSE IF hm.p = NULL
       THEN \* pcintr_message_destroy, return 0
            /\ hm' = NoMsg
            /\ pc' = AfterDispatch
            /\ UNCHANGED <<aborted, rc, coVars>>
       ELSE IF ~is_observer_match(Entry(lst, hm.p), hm.src, hm.atom, hm.sub)
       THEN /\ hm' = Advance(hm, lst)
            /\ UNCHANGED <<aborted, pc, rc, coVars>>
       ELSE IF FreshAddr(frames[t]) = NULL
       THEN \* push_stack_frame_normal failed: return -1
            /\ errcode' = 1
            /\ hm' = NoMsg
            /\ pc' = AfterDispatch
            /\ UNCHANGED <<aborted, rc, coroutines, running_coroutine, life,
                           doc, co_state, frames, exited, except, waits, stage>>
       ELSE /\ frames' = [frames EXCEPT ![t] =
                              ObserverFrame(@, FreshAddr(frames[t]),
                                            Entry(lst, hm.p))]
            /\ co_state' = [co_state EXCEPT ![t] = CO_STATE_READY]
            /\ hm' = [hm EXCEPT !.phase = "next",
                                !.pushed = Append(@, hm.p)]
            /\ rc' = [todo |-> coroutines, readies |-> 0, waits |-> 0,
                      stepped |-> <<>>,
                      ready0 |-> {c \in CoIds : life[c] = "alive"
                                     /\ co_state'[c] = CO_STATE_READY}]
            /\ pc' = "rc"
            /\ UNCHANGED <<aborted, coroutines, running_coroutine, life, doc,
                           exited, except, waits, stage, errcode>>
    /\ UNCHANGED <<ndebug, extVars, async, loopq, stop_req, observers, reqVars, hist>>

\* ------------------------------------------------------------------------
\* Requests

UBOutcomes == {"crash", "benign"}

UnusedReqIds == {r \in ReqIds : reqs[r].state = ""}

\* list_del(&req->node): the request leaves whichever queue links it
Unlinked(q, r) == SeqRemove(q, r)

\* the five queues after req r was unlinked and added at the tail of queue to
MoveReq(r, to) ==
    /\ pending_reqs' = IF to = "pending" THEN Append(Unlinked(pending_reqs, r), r)
                       ELSE Unlinked(pending_reqs, r)
    /\ active_reqs' = IF to = "active" THEN Append(Unlinked(active_reqs, r), r)
                      ELSE Unlinked(active_reqs, r)
    /\ cancelled_reqs' = IF to = "cancelled"
                         THEN Append(Unlinked(cancelled_reqs, r), r)
                         ELSE Unlinked(cancelled_reqs, r)
    /\ hibernating_reqs' = IF to = "hibernating"
                           THEN Append(Unlinked(hibernating_reqs, r), r)
                           ELSE Unlinked(hibernating_reqs, r)
    /\ dying_reqs' = IF to = "dying" THEN Append(Unlinked(dying_reqs, r), r)
                     ELSE Unlinked(dying_reqs, r)

QueuesUnchanged ==
    UNCHANGED <<pending_reqs, active_reqs, cancelled_reqs, hibernating_reqs,
                dying_reqs>>

\* pcintr_post_req by a handler of the current coroutine; ok is the result
\* of ops->req.  A request whose ops->req fails is freed but stays linked.
pcintr_post_req(c, type, ok) ==
    /\ InHandler(c)
    /\ UnusedReqIds # {}
    /\ LET r == CHOOSE x \in UnusedReqIds : \A y \in UnusedReqIds : x <= y
       IN  /\ reqs' = [reqs EXCEPT ![r] =
                         [type |-> type, owner |-> c, frame |-> BottomAddr(c),
                          state |-> REQ_STATE_PENDING, refc |-> 1,
                          freed |-> ~ok, cancels |-> 0, callbacks |-> 0]]
           /\ pending_reqs' = Append(pending_reqs, r)
    /\ UNCHANGED <<ndebug, extVars, async, aborted, loopVars, coVars, observers, active_reqs,
                   cancelled_reqs, hibernating_reqs, dying_reqs, hist>>

\* a cancel that sends a request already cancelled on to DYING
StateAfterCancel_again(st) ==
    IF st = REQ_STATE_PENDING THEN REQ_STATE_CANCELLED
    ELSE IF st = REQ_STATE_CANCELLED THEN REQ_STATE_DYING
    ELSE st

\* the state pcintr_cancel_req leaves a request in
StateAfterCancel(st) ==
    IF st = REQ_STATE_PENDING THEN REQ_STATE_CANCELLED ELSE st

\* pcintr_cancel_req by the owner, which is the current coroutine
pcintr_cancel_req(c, r) ==
    /\ InHandler(c)
    /\ reqs[r].state # ""
    /\ ~reqs[r].freed
    /\ reqs[r].owner = c
    /\ IF reqs[r].state = REQ_STATE_PENDING
       THEN /\ MoveReq(r, "cancelled")
            /\ reqs' = [reqs EXCEPT ![r].state = StateAfterCancel(@),
                                    ![r].cancels = @ + 1,
                                    ![r].refc = @ - 1]
            \* PC_ASSERT(req->refc), with the current coroutine still unset
            /\ IF reqs[r].refc - 1 = 0 /\ ~ndebug
               THEN /\ aborted' = "cancel_req: refc is zero"
                    /\ running_coroutine' = NULL
               ELSE UNCHANGED <<aborted, running_coroutine>>
       ELSE IF reqs[r].state = REQ_STATE_ACTIVATING
       THEN /\ reqs' = [reqs EXCEPT ![r].state = StateAfterCancel(@)]
            /\ QueuesUnchanged
            /\ UNCHANGED <<aborted, running_coroutine>>
       ELSE \* default: PC_ASSERT(0)
            /\ IF ~ndebug
               THEN /\ aborted' = "cancel_req: bad state"
                    /\ running_coroutine' = NULL
               ELSE UNCHANGED <<aborted, running_coroutine>>
            /\ QueuesUnchanged
            /\ reqs' = [reqs EXCEPT ![r].state = StateAfterCancel(@)]
    /\ hist' = [hist EXCEPT !.req_call =
                   [op |-> "cancel", req |-> r, from |-> reqs[r].state]]
    /\ UNCHANGED <<ndebug, extVars, async, loopVars, coroutines, life, doc, co_state, frames,
                   exited, except, waits, stage, errcode, observers>>

\* the state pcintr_hibernate_active_req leaves a request in
StateAfterHibernate(st) ==
    IF st = REQ_STATE_ACTIVATING THEN REQ_STATE_HIBERNATING ELSE st

\* pcintr_hibernate_active_req by the owner, which is the current coroutine
pcintr_hibernate_active_req(c, r) ==
    /\ InHandler(c)
    /\ reqs[r].state # ""
    /\ ~reqs[r].freed
    /\ reqs[r].owner = c
    /\ IF reqs[r].state = REQ_STATE_ACTIVATING
       THEN /\ MoveReq(r, "hibernating")
            /\ reqs' = [reqs EXCEPT ![r].state = StateAfterHibernate(@)]
            /\ IF reqs[r].refc = 0 /\ ~ndebug
               THEN aborted' = "hibernate_req: refc is zero"
               ELSE UNCHANGED aborted
       ELSE /\ IF ~ndebug THEN aborted' = "hibernate_req: bad state"
               ELSE UNCHANGED aborted
            /\ QueuesUnchanged
            /\ reqs' = [reqs EXCEPT ![r].state = StateAfterHibernate(@)]
    /\ hist' = [hist EXCEPT !.req_call =
                   [op |-> "hibernate", req |-> r, from |-> reqs[r].state]]
    /\ UNCHANGED <<ndebug, extVars, async, loopVars, coVars, observers>>

\* an activation whose CANCELLED case falls into the PENDING case
StateAfterActivate_fallthrough(st) ==
    IF st \in {REQ_STATE_PENDING, REQ_STATE_CANCELLED}
    THEN REQ_STATE_ACTIVATING
    ELSE st

\* the state pcintr_activate_req leaves a request in
StateAfterActivate(st) ==
    IF st = REQ_STATE_PENDING THEN REQ_STATE_ACTIVATING
    ELSE IF st = REQ_STATE_CANCELLED THEN REQ_STATE_DYING
    ELSE st

\* pcintr_activate_req, from a handler or from a callback of the loop.
\* wakeup_heap is handed the run loop where it expects the heap (ub: what
\* the misread pointer leads to); the owner is read even when it was freed.
pcintr_activate_req(r, ub) ==
    /\ aborted = ""
    /\ \/ pc = "idle"
       \/ pc = "step" /\ doc[running_coroutine] = "general"
    /\ reqs[r].state # ""
    /\ ~reqs[r].freed
    /\ Len(loopq) < MaxLoopQ
    /\ IF life[reqs[r].owner] # "alive" /\ ub = "crash"
       THEN /\ aborted' = "activate_req: owner freed"
            /\ QueuesUnchanged
            /\ UNCHANGED <<reqs, loopq, running_coroutine>>
       ELSE IF reqs[r].state \in {REQ_STATE_PENDING, REQ_STATE_CANCELLED}
       THEN /\ MoveReq(r, IF reqs[r].state = REQ_STATE_PENDING
                          THEN "active" ELSE "dying")
            /\ reqs' = [reqs EXCEPT
                          ![r].state = StateAfterActivate(@),
                          ![r].refc = IF reqs[r].state = REQ_STATE_PENDING
                                      THEN @ - 1 ELSE @]
            /\ IF ub = "crash"
               THEN /\ aborted' = "activate_req: wakeup_heap on the run loop"
                    /\ running_coroutine' = NULL
                    /\ UNCHANGED loopq
               ELSE /\ loopq' = purc_runloop_dispatch(loopq,
                          [kind |-> IF reqs[r].state = REQ_STATE_PENDING
                                    THEN "on_req_activating"
                                    ELSE "on_req_dying",
                           co |-> NULL, src |-> "", atom |-> "",
                           seq |-> 0])
                    /\ IF reqs[r].state = REQ_STATE_PENDING
                          /\ reqs[r].refc - 1 = 0 /\ ~ndebug
                       THEN /\ aborted' = "activate_req: refc is zero"
                            /\ running_coroutine' = NULL
                       ELSE UNCHANGED <<aborted, running_coroutine>>
       ELSE \* default: PC_ASSERT(0)
            /\ IF ~ndebug
               THEN /\ aborted' = "activate_req: bad state"
                    /\ running_coroutine' = NULL
               ELSE UNCHANGED <<aborted, running_coroutine>>
            /\ QueuesUnchanged
            /\ reqs' = [reqs EXCEPT ![r].state = StateAfterActivate(@)]
            /\ UNCHANGED loopq
    /\ hist' = [hist EXCEPT !.req_call =
                   [op |-> "activate", req |-> r, from |-> reqs[r].state]]
    /\ UNCHANGED <<ndebug, extVars, async, pc, stop_req, rc, hm, coroutines, life, doc,
                   co_state, frames, exited, except, waits, stage, errcode,
                   observers>>

\* heap_wokenup(on_req_activating).  The handler takes the current
\* coroutine of the heap; a loop dispatch has none, and then neither build
\* gets past the entry (PC_ASSERT(co), or the lock of a null heap).
on_req_activating ==
    /\ aborted = ""
    /\ pc = "idle"
    /\ loopq # <<>>
    /\ Head(loopq).kind = "on_req_activating"
    /\ loopq' = Tail(loopq)
    /\ LET co == running_coroutine
           r == Head(active_reqs)
           mismatch == reqs[r].frame # BottomAddr(co)
           hib == \/ reqs[r].type = REQ_TYPE_SYNC /\ mismatch
                  \/ reqs[r].type = REQ_TYPE_ASYNC
                       /\ co_state[co] # CO_STATE_READY
           ncb == IF reqs[r].type = REQ_TYPE_RAW THEN 2
                  ELSE IF reqs[r].type = REQ_TYPE_SYNC /\ ~mismatch THEN 2
                  ELSE 1
       IN
       IF co = NULL
       THEN /\ aborted' = IF ndebug THEN "on_req_activating: null heap"
                          ELSE "on_req_activating: no current coroutine"
            /\ QueuesUnchanged
            /\ UNCHANGED reqs
       ELSE IF active_reqs = <<>>
       THEN /\ aborted' = "on_req_activating: no active request"
            /\ QueuesUnchanged
            /\ UNCHANGED reqs
       ELSE /\ IF hib THEN MoveReq(r, "hibernating")
               ELSE MoveReq(r, "none")
            /\ reqs' = [reqs EXCEPT ![r].callbacks = @ + ncb]
            /\ IF reqs[r].type = REQ_TYPE_SYNC /\ ~mismatch /\ ~ndebug
                  /\ co_state[co] # CO_STATE_WAIT
               THEN aborted' = "on_req_activating: owner not in WAIT"
               ELSE UNCHANGED aborted
    /\ UNCHANGED <<ndebug, extVars, async, pc, stop_req, rc, hm, coVars, observers, hist>>

\* heap_wokenup(on_req_dying): PC_ASSERT(co) and nothing else
on_req_dying ==
    /\ aborted = ""
    /\ pc = "idle"
    /\ loopq # <<>>
    /\ Head(loopq).kind = "on_req_dying"
    /\ loopq' = Tail(loopq)
    /\ IF running_coroutine = NULL /\ ~ndebug
       THEN aborted' = "on_req_dying: no current coroutine"
       ELSE UNCHANGED aborted
    /\ UNCHANGED <<ndebug, extVars, async, pc, stop_req, rc, hm, coVars, observers, reqVars,
                   hist>>

\* ------------------------------------------------------------------------
\* Routines posted to the heap of a coroutine from any thread

WakeupForRoutinesItem ==
    [kind |-> "wakeup_for_routines", co |-> NULL, src |-> "", atom |-> "",
     seq |-> 0]

\* pcintr_post_routine up to pcintr_heap_unlock: under the heap lock the
\* routine is linked at the tail of heap->routines and the poster notes
\* whether the list was empty
pcintr_post_routine(p, target) ==
    /\ aborted = ""
    /\ pc # "stopped"
    /\ posters[p] = "idle"
    /\ rt_posted < MaxRt
    /\ life[target] = "alive"
    /\ rt_posted' = rt_posted + 1
    /\ routines' = Append(routines, rt_posted + 1)
    /\ posters' = [posters EXCEPT ![p] = IF routines = <<>> THEN "wakeup"
                                         ELSE "idle"]
    /\ UNCHANGED <<ndebug, timers, ctxts, async, aborted, loopVars, coVars, observers, reqVars,
                   hist, rt_ran, evVars>>

\* pcintr_post_routine after the unlock: if (empty) wakeup_heap(...)
pcintr_post_routine_wakeup(p) ==
    /\ aborted = ""
    /\ posters[p] = "wakeup"
    /\ posters' = [posters EXCEPT ![p] = "idle"]
    /\ loopq' = purc_runloop_dispatch(loopq, WakeupForRoutinesItem)
    /\ UNCHANGED <<ndebug, timers, ctxts, async, aborted, pc, stop_req, rc, hm, coVars, observers,
                   reqVars, hist, routines, rt_posted, rt_ran, evVars>>

\* heap_wokenup(wakeup_for_routines) on the loop thread.  The function
\* takes the heap from the current coroutine: PC_ASSERT(co) aborts without
\* one, and with PC_ASSERT compiled out pcintr_heap_lock(NULL) dereferences
\* the null heap.  With a current coroutine the list is drained from its
\* head, each routine run outside the lock.
wakeup_for_routines ==
    /\ aborted = ""
    /\ pc = "idle"
    /\ loopq # <<>>
    /\ Head(loopq).kind = "wakeup_for_routines"
    /\ loopq' = Tail(loopq)
    /\ IF running_coroutine = NULL
       THEN /\ aborted' = IF ndebug
                          THEN "wakeup_for_routines: null heap dereferenced"
                          ELSE "wakeup_for_routines: no current coroutine"
            /\ UNCHANGED <<routines, rt_ran>>
       ELSE /\ rt_ran' = rt_ran \o routines
            /\ routines' = <<>>
            /\ UNCHANGED aborted
    /\ UNCHANGED <<ndebug, timers, ctxts, async, pc, stop_req, rc, hm, coVars, observers, reqVars,
                   hist, posters, rt_posted, evVars>>

\* ------------------------------------------------------------------------
\* The expression variable observed as a native value, scanned by the
\* event timer of its stack

\* eval_getter (vcm-ev.c): pcvcm_eval on the stack of the current
\* coroutine, PURC_VARIANT_INVALID (NULL) when there is none
eval_getter(cur) == IF cur = NULL THEN NULL ELSE ev_value

\* on_observe (vcm-ev.c), called by the handler that observes the
\* variable: last_value is the value evaluated now
on_observe(c) ==
    /\ InHandler(c)
    /\ observers[c]["native"] # <<>>
    /\ ev_last # eval_getter(c)
    /\ ev_last' = eval_getter(c)
    /\ UNCHANGED <<ndebug, timers, ctxts, async, aborted, loopVars, coVars, observers, reqVars,
                   hist, rtVars, ev_value, ev_scans, vcm_ev, libVars>>

\* the expression comes to evaluate to another value
ev_change(v) ==
    /\ aborted = ""
    /\ pc # "stopped"
    /\ v # ev_value
    /\ ev_value' = v
    /\ UNCHANGED <<ndebug, timers, ctxts, async, aborted, loopVars, coVars, observers, reqVars,
                   hist, rtVars, ev_last, ev_scans, vcm_ev, libVars>>

\* pcintr_observe_vcm_ev for one observer: the virtual frame is pushed,
\* the value evaluated and the frame popped; without a value, or with a
\* value equal to last, nothing happens, otherwise last_value_setter
\* stores it and a change message is dispatched.  The result is last_value
\* and the number of messages dispatched so far.
pcintr_observe_vcm_ev(st, push_ok, new_val) ==
    IF ~push_ok \/ new_val = NULL THEN st
    ELSE IF new_val = st.last THEN st
    ELSE [last |-> new_val, msgs |-> st.msgs + 1]

\* pcintr_event_timer_fire: the walk over the native observers of the
\* stack, n of them left
RECURSIVE ScanPass(_, _, _, _)
ScanPass(n, st, push_ok, new_val) ==
    IF n = 0 THEN st
    ELSE ScanPass(n - 1, pcintr_observe_vcm_ev(st, push_ok, new_val),
                  push_ok, new_val)

\* the change messages of a pass, in dispatch order
ChangeMsgs(t, n) ==
    [i \in 1..n |-> [kind |-> "handle_message", co |-> t, src |-> "native",
                     atom |-> "change", sub |-> NoSubType,
                     seq |-> NextSeq + i - 1]]

\* the event timer of stack t fires on the loop thread, with cur the
\* current coroutine of the heap
pcintr_event_timer_fire(t) ==
    /\ aborted = ""
    /\ pc = "idle"
    /\ life[t] = "alive"
    /\ ev_scans < MaxScans
    /\ LET cur == running_coroutine
           end == ScanPass(Len(observers[t]["native"]),
                           [last |-> ev_last, msgs |-> 0],
                           FreshAddr(frames[t]) # NULL, eval_getter(cur))
       IN  /\ ev_last' = end.last
           /\ loopq' = loopq \o ChangeMsgs(t, end.msgs)
    /\ ev_scans' = ev_scans + 1
    /\ UNCHANGED <<ndebug, timers, ctxts, async, aborted, pc, stop_req, rc, hm, coVars, observers,
                   reqVars, hist, rtVars, ev_value, vcm_ev, libVars>>

\* the names of the two evaluating getters: method_name and
\* const_method_name, which is method_name followed by the suffix
PCVCM_EV_DEFAULT_METHOD_NAME == "eval"
PCVCM_EV_CONST_METHOD_NAME == "eval_const"
EvKeys == {PCVCM_EV_DEFAULT_METHOD_NAME, PCVCM_EV_CONST_METHOD_NAME}

\* property_getter: the getter of a key
property_getter(key_name) ==
    IF key_name = PCVCM_EV_DEFAULT_METHOD_NAME THEN "eval_getter"
    ELSE IF key_name = PCVCM_EV_CONST_METHOD_NAME THEN "eval_const_getter"
    ELSE "other"

\* eval_getter with the result of pcvcm_eval: ok tells whether the
\* evaluation of the tree succeeds; no tree is evaluated without a stack
pcvcm_eval_on(cur, ok) == IF ok THEN eval_getter(cur) ELSE NULL

\* an eval_const_getter that evaluates the tree on every call
eval_const_getter_uncached(ev, cur, ok) ==
    [ev EXCEPT !.const_value = pcvcm_eval_on(cur, ok),
               !.const_evals = IF cur = NULL THEN @ ELSE @ + 1,
               !.first = IF @ = NULL /\ ev.const_evals = 0
                         THEN pcvcm_eval_on(cur, ok) ELSE @,
               !.const_calls = @ + 1,
               !.ret = pcvcm_eval_on(cur, ok)]

\* eval_const_getter: the cached value if there is one, else the value of
\* eval_getter, which is kept as const_value
eval_const_getter(ev, cur, ok) ==
    IF ev.const_value # NULL
    THEN [ev EXCEPT !.const_calls = @ + 1, !.ret = ev.const_value]
    ELSE [ev EXCEPT !.const_value = pcvcm_eval_on(cur, ok),
                    !.const_evals = IF cur = NULL THEN @ ELSE @ + 1,
                    !.first = IF @ = NULL /\ ev.const_evals = 0
                              THEN pcvcm_eval_on(cur, ok) ELSE @,
                    !.const_calls = @ + 1,
                    !.ret = pcvcm_eval_on(cur, ok)]

\* a call of the getter of key_name on the expression variable, by a
\* handler of the current coroutine or by a callback of the loop, which
\* has no stack
pcvcm_ev_call(cur, key_name, ok) ==
    /\ aborted = ""
    /\ \/ cur # NULL /\ InHandler(cur)
       \/ cur = NULL /\ pc = "idle"
    /\ IF property_getter(key_name) = "eval_const_getter"
       THEN /\ vcm_ev.const_calls < MaxCalls
            /\ vcm_ev' = eval_const_getter(vcm_ev, cur, ok)
       ELSE /\ vcm_ev.calls < MaxCalls
            /\ vcm_ev' = [vcm_ev EXCEPT
                             !.calls = @ + 1,
                             !.evals = IF cur = NULL THEN @ ELSE @ + 1,
                             !.ret = pcvcm_eval_on(cur, ok)]
    /\ UNCHANGED <<ndebug, timers, ctxts, async, aborted, loopVars, coVars,
                   observers, reqVars, hist, rtVars, ev_value, ev_last,
                   ev_scans, libVars>>

\* ------------------------------------------------------------------------
\* The ids of the asynchronous requests a stack has outstanding

\* pcintr_save_async_request_id by the handler that started the request:
\* the id the fetcher returned, one not given out before, is appended
pcintr_save_async_request_id(c, id) ==
    /\ InHandler(c)
    /\ id \notin async.removed
    /\ async.cancels[id] = 0
    /\ \A d \in CoIds : \A n \in 1..Len(async.ids[d]) :
          async.ids[d][n] # id
    /\ async' = [async EXCEPT !.ids[c] = Append(@, id)]
    /\ UNCHANGED <<ndebug, extVars, aborted, loopVars, coVars, observers,
                   reqVars, hist>>

\* pcintr_remove_async_request_id: the first entry that is the id leaves
\* the array
pcintr_remove_async_request_id(c, id) ==
    /\ InHandler(c)
    /\ \E n \in 1..Len(async.ids[c]) : async.ids[c][n] = id
    /\ LET at == CHOOSE n \in 1..Len(async.ids[c]) :
                    /\ async.ids[c][n] = id
                    /\ \A m \in 1..(n - 1) : async.ids[c][m] # id
       IN  async' = [async EXCEPT
                       !.ids[c] = SubSeq(@, 1, at - 1)
                                    \o SubSeq(@, at + 1, Len(@)),
                       !.removed = @ \cup {id}]
    /\ UNCHANGED <<ndebug, extVars, aborted, loopVars, coVars, observers,
                   reqVars, hist>>

\* ------------------------------------------------------------------------
\* The handlers of the match element and the scratch context of a frame

\* match_for_rule_eval of a rule parsed from a string: the value matches
\* when it is that string
match_for_rule_eval(for_var, val) == val = for_var

\* stack_frame_release: the destructor of the context runs when the frame
\* still has one
stack_frame_release(cx, f) ==
    IF f.ctxt.id # NULL THEN [cx EXCEPT !.destroyed[f.ctxt.id] = @ + 1]
    ELSE cx

\* a test of on_popping that leaves out ctxt->matched
exclusively_unmatched(f) == f.ctxt.id # NULL /\ f.ctxt.is_exclusively

\* on_popping of match, "if (ctxt) if (ctxt->is_exclusively &&
\* ctxt->matched)": the frame marks its parent
exclusively_matched(f) ==
    f.ctxt.id # NULL /\ f.ctxt.is_exclusively /\ f.ctxt.matched

\* after_pushed of match: without a context (ok false: the at sign or
\* calloc failed) it returns null; else the context is hung on the frame
\* and post_process tests the for attribute against the ? of the frame
\* and looks for the attributes exclusively and excl
match_after_pushed(c, ok, rdr_ok) ==
    /\ InStep(c)
    /\ rdr_ok \/ stage[c] = STACK_STAGE_FIRST_ROUND
    /\ Bottom(c).next_step = NEXT_STEP_AFTER_PUSHED
    /\ Bottom(c).ops = "match"
    /\ ok => ctxts.made < MaxCtxt
    /\ LET f == Bottom(c)
           for_var == f.pos.for
           matched == IF for_var = PURC_VARIANT_INVALID THEN TRUE
                      ELSE match_for_rule_eval(for_var, f.sym["?"])
           ctxt == [id |-> ctxts.made + 1,
                    is_exclusively |-> f.pos.excl = "exclusively"
                                         \/ f.pos.excl = "excl",
                    matched |-> matched]
       IN  IF ok
           THEN /\ ctxts' = [ctxts EXCEPT !.made = @ + 1]
                /\ ExecuteOneStepTail(c, NEXT_STEP_AFTER_PUSHED,
                      WithBottom(c, [f EXCEPT !.ctxt = ctxt,
                                      !.next_step =
                                          after_pushed_next_step(TRUE)]),
                      FALSE, rdr_ok)
           ELSE /\ UNCHANGED ctxts
                /\ ExecuteOneStepTail(c, NEXT_STEP_AFTER_PUSHED,
                      WithBottom(c, [f EXCEPT
                                      !.next_step =
                                          after_pushed_next_step(FALSE)]),
                      TRUE, rdr_ok)
    /\ UNCHANGED <<ndebug, rtVars, evVars, timers, loopq, stop_req, hm,
                   reqVars>>
    /\ async' = StackReleased

\* an on_popping of match that destroys the context and leaves the
\* pointer in the frame
match_on_popping_keeps_ctxt(c, rdr_ok) ==
    /\ InStep(c)
    /\ rdr_ok \/ stage[c] = STACK_STAGE_FIRST_ROUND
    /\ Bottom(c).next_step = NEXT_STEP_ON_POPPING
    /\ Bottom(c).ops = "match"
    /\ Len(frames[c]) > 1
    /\ LET f == Bottom(c)
           marks == exclusively_matched(f)
           fr == IF marks
                 THEN [Popped(c) EXCEPT ![Len(frames[c]) - 1].result_from_child
                                           = [type |-> "boolean", v |-> 1]]
                 ELSE Popped(c)
       IN  /\ ctxts' = stack_frame_release(stack_frame_release(ctxts, f), f)
           /\ ExecuteOneStepTail(c, NEXT_STEP_ON_POPPING, fr,
                                 errcode # 0, rdr_ok)
    /\ UNCHANGED <<ndebug, rtVars, evVars, timers, loopq, stop_req, hm,
                   reqVars>>
    /\ async' = StackReleased

\* on_popping of match: a frame with a context that is exclusive and
\* matched makes the child result of its parent true; the context is
\* destroyed and the pointer cleared; the handler returns true and
\* pop_stack_frame releases the frame
match_on_popping(c, rdr_ok) ==
    /\ InStep(c)
    /\ rdr_ok \/ stage[c] = STACK_STAGE_FIRST_ROUND
    /\ Bottom(c).next_step = NEXT_STEP_ON_POPPING
    /\ Bottom(c).ops = "match"
    /\ Len(frames[c]) > 1
    /\ LET f == Bottom(c)
           marks == exclusively_matched(f)
           fr == IF marks
                 THEN [Popped(c) EXCEPT ![Len(frames[c]) - 1].result_from_child
                                           = [type |-> "boolean", v |-> 1]]
                 ELSE Popped(c)
       IN  /\ ctxts' = stack_frame_release(stack_frame_release(ctxts, f),
                                           [f EXCEPT !.ctxt = NoCtxt])
           /\ ExecuteOneStepTail(c, NEXT_STEP_ON_POPPING, fr,
                                 errcode # 0, rdr_ok)
    /\ UNCHANGED <<ndebug, rtVars, evVars, timers, loopq, stop_req, hm,
                   reqVars>>
    /\ async' = StackReleased

\* ------------------------------------------------------------------------
\* select_child of match over the child nodes of its element

\* the node types a child of an element can have
NodeTypes == {"element", "content", "comment"}
ChildLists == UNION {[1..n -> NodeTypes] : n \in 0..MaxChildren}

\* pcvdom_node_first_child / pcvdom_node_next_sibling: the node after curr
\* in the list of children, NULL behind the last
next_node(children, curr) ==
    IF curr + 1 <= Len(children) THEN curr + 1 ELSE NULL

\* a select_child that does not look at ctxt->matched
RECURSIVE select_child_unconditional(_, _, _)
select_child_unconditional(children, matched, curr) ==
    LET nxt == next_node(children, curr)
    IN  IF nxt = NULL THEN [curr |-> NULL, element |-> NULL]
        ELSE IF children[nxt] = "element"
        THEN [curr |-> nxt, element |-> nxt]
        ELSE select_child_unconditional(children, matched, nxt)

\* select_child of match: nothing when the rule did not match; else the
\* cursor moves to the first child or the next sibling, an element is
\* returned, content and comments are passed over (goto again), and the
\* end of the list clears the cursor and returns NULL
RECURSIVE select_child(_, _, _)
select_child(children, matched, curr) ==
    IF ~matched THEN [curr |-> curr, element |-> NULL]
    ELSE LET nxt == next_node(children, curr)
         IN  IF nxt = NULL THEN [curr |-> NULL, element |-> NULL]
             ELSE IF children[nxt] = "element"
             THEN [curr |-> nxt, element |-> nxt]
             ELSE select_child(children, matched, nxt)

\* after_pushed of match on an element with these children: the context is
\* allocated with a null cursor, post_process decides matched (no for
\* attribute: true; else what the rule gives), and the frame goes to
\* SELECT_CHILD
match_frame_pushed(children, has_for, rule_matched) ==
    /\ aborted = ""
    /\ match_sel = NoSel
    /\ match_sel' = [NoSel EXCEPT
                       !.children = children,
                       !.matched = IF has_for THEN rule_matched ELSE TRUE,
                       !.next_step = after_pushed_next_step(TRUE)]
    /\ UNCHANGED <<ndebug, aborted, loopVars, coVars, observers, reqVars,
                   hist, rtVars, ev_value, ev_last, ev_scans, vcm_ev,
                   timers, ctxts, async, rdr, exe_key>>

\* on_select_child on the match frame: no element sends it to ON_POPPING;
\* an element leaves it at SELECT_CHILD and a child frame is pushed
\* (push_ok false: push_stack_frame_normal fails and nothing is pushed);
\* the frame is the bottom frame again when the child frame is popped
match_on_select_child(push_ok) ==
    /\ aborted = ""
    /\ match_sel.next_step = NEXT_STEP_SELECT_CHILD
    /\ LET r == select_child(match_sel.children, match_sel.matched,
                             match_sel.curr)
       IN  match_sel' = [match_sel EXCEPT
              !.curr = r.curr,
              !.calls = @ + 1,
              !.yielded = IF r.element = NULL THEN @
                          ELSE Append(@, r.element),
              !.pushed = IF r.element = NULL \/ ~push_ok THEN @
                         ELSE Append(@, r.element),
              !.next_step = IF r.element = NULL THEN NEXT_STEP_ON_POPPING
                            ELSE NEXT_STEP_SELECT_CHILD]
    /\ UNCHANGED <<ndebug, aborted, loopVars, coVars, observers, reqVars,
                   hist, rtVars, ev_value, ev_last, ev_scans, vcm_ev,
                   timers, ctxts, async, rdr, exe_key>>

\* ------------------------------------------------------------------------
\* Attaching a document to the renderer (rdr.c)

\* the operation names of the renderer protocol
PCRDR_OPERATION_CREATEWORKSPACE == "createWorkspace"
PCRDR_OPERATION_CREATEPLAINWINDOW == "createPlainWindow"
PCRDR_OPERATION_CREATETABBEDWINDOW == "createTabbedWindow"
PCRDR_OPERATION_CREATETABPAGE == "createTabPage"

\* the handles a renderer hands out; 0 is the result of a refused request
Handles == 1..MaxHandle
Replies == {0} \cup Handles

\* create_target_workspace: the request, addressed to the session
create_target_workspace(session_handle) ==
    [operation |-> PCRDR_OPERATION_CREATEWORKSPACE,
     target |-> "session", target_value |-> session_handle]

\* the addressee of a window request: the workspace when there is a
\* workspace handle, else the session
window_target(workspace_handle, session_handle) ==
    IF workspace_handle # 0
    THEN [target |-> "workspace", target_value |-> workspace_handle]
    ELSE [target |-> "session", target_value |-> session_handle]

\* create_tabbed_window: the request it makes
create_tabbed_window(workspace_handle, session_handle) ==
    [operation |-> PCRDR_OPERATION_CREATEPLAINWINDOW,
     target |-> window_target(workspace_handle, session_handle).target,
     target_value |->
         window_target(workspace_handle, session_handle).target_value]

\* create_tabpage: the request, addressed to the tabbed window
create_tabpage(window_handle) ==
    [operation |-> PCRDR_OPERATION_CREATETABPAGE,
     target |-> "tabbedWindow", target_value |-> window_handle]

\* create_plain_window: the request it makes
create_plain_window(workspace_handle, session_handle) ==
    [operation |-> PCRDR_OPERATION_CREATETABBEDWINDOW,
     target |-> window_target(workspace_handle, session_handle).target,
     target_value |->
         window_target(workspace_handle, session_handle).target_value]

\* purc_attach_vdom_to_renderer.  ws, win, tab: the target names given;
\* caps: rdr_caps->workspace is not 0; sh: the session handle; r1, r2, r3:
\* what the renderer answers to the workspace, window and tab page request
\* (a handle, or 0: refused).  A request is sent and its answer awaited
\* before the next one is made; the first refusal ends the call.
purc_attach_vdom_to_renderer(ws, win, tab, caps, sh, r1, r2, r3) ==
    /\ aborted = ""
    /\ rdr = NoRdr
    /\ LET args == [NoRdr EXCEPT !.called = TRUE, !.target_workspace = ws,
                                 !.target_window = win,
                                 !.target_tabpage = tab,
                                 !.caps_workspace = caps,
                                 !.session_handle = sh]
           want_ws == ws /\ caps
           workspace == IF want_ws THEN r1 ELSE 0
           s1 == IF want_ws THEN <<create_target_workspace(sh)>> ELSE <<>>
           wmsg == IF tab THEN create_tabbed_window(workspace, sh)
                   ELSE create_plain_window(workspace, sh)
       IN  rdr' =
             IF ~win THEN args
             ELSE IF want_ws /\ workspace = 0 THEN [args EXCEPT !.sent = s1]
             ELSE IF r2 = 0 THEN [args EXCEPT !.sent = Append(s1, wmsg)]
             ELSE IF tab /\ r3 = 0
             THEN [args EXCEPT
                     !.sent = s1 \o <<wmsg, create_tabpage(r2)>>]
             ELSE [args EXCEPT
                     !.sent = IF tab
                              THEN s1 \o <<wmsg, create_tabpage(r2)>>
                              ELSE Append(s1, wmsg),
                     !.workspace = workspace,
                     !.window = r2,
                     !.tabpage = IF tab THEN r3 ELSE 0,
                     !.ret = TRUE]
    /\ UNCHANGED <<ndebug, aborted, loopVars, coVars, observers, reqVars,
                   hist, rtVars, ev_value, ev_last, ev_scans, vcm_ev,
                   timers, ctxts, async, match_sel, exe_key>>

\* ------------------------------------------------------------------------
\* The KEY executor (exe_key.c)

PCEXECUTOR_ERROR_NOT_EXISTS == "NOT_EXISTS"
PCEXECUTOR_ERROR_NOT_ALLOWED == "NOT_ALLOWED"

\* the keys of the objects of the model; the value of the member of key k
\* is the string "=" \o k
KeyNames == {"a", "b", "c"}
Objects ==
    {o \in UNION {[1..n -> KeyNames] : n \in 0..MaxEntries} :
        \A i, j \in 1..Len(o) : i # j => o[i] # o[j]}
ForClauses == {"VALUE", "KEY", "KV"}
Rules ==
    {[has_smle |-> FALSE, keys |-> {}, for_clause |-> f] : f \in ForClauses}
        \cup {[has_smle |-> TRUE, keys |-> ks, for_clause |-> f] :
                  ks \in SUBSET KeyNames, f \in ForClauses}

\* init_result_set: key and value of every member, in the order the
\* object is iterated
RECURSIVE init_result_set(_)
init_result_set(input) ==
    IF input = <<>> THEN <<>>
    ELSE <<Head(input), "=" \o Head(input)>> \o init_result_set(Tail(input))

\* parse_rule: the rule is stored and prepare_result_set builds the array
\* anew
parse_rule(x, rule) ==
    [x EXCEPT !.rule = rule, !.result_set = init_result_set(x.input)]

\* key_rule_eval
key_rule_eval(rule, k) == IF ~rule.has_smle THEN TRUE ELSE k \in rule.keys

\* the loop of check_curr: the index of the first key at or behind curr
\* that satisfies the rule, -1 when the end of the array is reached
RECURSIVE first_match(_, _, _)
first_match(result_set, rule, curr) ==
    IF curr >= Len(result_set) THEN -1
    ELSE IF key_rule_eval(rule, result_set[curr + 1]) THEN curr
    ELSE first_match(result_set, rule, curr + 2)

\* the value of an entry under the for clause of the rule
entry_value(for_clause, k, v) ==
    IF for_clause = "VALUE" THEN <<v>>
    ELSE IF for_clause = "KEY" THEN <<k>>
    ELSE <<k, v>>

\* check_curr: on a match value and curr are set and the iterator is
\* returned; at the end the error is NOT_EXISTS and nothing else is written
check_curr(x) ==
    LET at == first_match(x.result_set, x.rule, x.curr)
    IN  IF x.curr < 0 \/ at < 0
        THEN [x EXCEPT !.err = PCEXECUTOR_ERROR_NOT_EXISTS, !.ok = FALSE]
        ELSE [x EXCEPT !.value = entry_value(x.rule.for_clause,
                                             x.result_set[at + 1],
                                             x.result_set[at + 2]),
                       !.curr = at,
                       !.ok = TRUE]

fetch_begin(x) == check_curr([x EXCEPT !.curr = 0])
fetch_next(x) == check_curr([x EXCEPT !.curr = @ + 2])
it_begin(x, rule) == fetch_begin(parse_rule(x, rule))
\* it_next: a rule that is given is parsed again
it_next(x, with_rule) ==
    fetch_next(IF with_rule THEN parse_rule(x, x.rule) ELSE x)

\* the loop of exe_key_choose: it_value is appended while it_next returns
\* the iterator
RECURSIVE choose_loop(_, _)
choose_loop(x, vals) ==
    IF ~x.ok THEN [x EXCEPT !.chose = TRUE, !.chosen = vals]
    ELSE choose_loop(it_next(x, FALSE), Append(vals, x.value))

\* the caller is handed the iterator, or NULL
Returned(x) ==
    IF x.ok THEN [x EXCEPT !.yielded = Append(@, x.value), !.read = FALSE]
    ELSE [x EXCEPT !.read = FALSE]

KeyUnchanged ==
    UNCHANGED <<ndebug, loopVars, coVars, observers, reqVars,
                hist, rtVars, ev_value, ev_last, ev_scans, vcm_ev,
                timers, ctxts, async, match_sel, rdr>>

\* exe_key_create on an object
exe_key_create(type, input) ==
    /\ aborted = ""
    /\ exe_key = NoKeyInst
    /\ exe_key' = [NoKeyInst EXCEPT !.type = type, !.input = input]
    /\ UNCHANGED aborted
    /\ KeyUnchanged

\* exe_key_choose
exe_key_choose(rule) ==
    /\ aborted = ""
    /\ exe_key.type = "CHOOSE"
    /\ ~exe_key.chose
    /\ exe_key' = choose_loop(it_begin(exe_key, rule), <<>>)
    /\ UNCHANGED aborted
    /\ KeyUnchanged

\* exe_key_it_begin
exe_key_it_begin(rule) ==
    /\ aborted = ""
    /\ exe_key.type # ""
    /\ ~exe_key.begun
    /\ exe_key' = IF exe_key.type # "ITERATE"
                  THEN [exe_key EXCEPT !.err = PCEXECUTOR_ERROR_NOT_ALLOWED,
                                       !.begun = TRUE]
                  ELSE [Returned(it_begin(exe_key, rule)) EXCEPT
                          !.begun = TRUE]
    /\ UNCHANGED aborted
    /\ KeyUnchanged

\* exe_key_it_value on the iterator returned last:
\* PC_ASSERT(inst->cache != PURC_VARIANT_INVALID)
exe_key_it_value ==
    /\ aborted = ""
    /\ exe_key.begun /\ exe_key.ok /\ ~exe_key.read
    /\ IF ~exe_key.cache /\ ~ndebug
       THEN /\ aborted' = "exe_key_it_value: no cache"
            /\ UNCHANGED exe_key
       ELSE /\ exe_key' = [exe_key EXCEPT !.read = TRUE,
                                          !.last = exe_key.value]
            /\ UNCHANGED aborted
    /\ KeyUnchanged

\* exe_key_it_next on the iterator returned last, with the rule again or
\* with NULL for an unchanged rule:
\* PC_ASSERT(inst->cache != PURC_VARIANT_INVALID)
exe_key_it_next(with_rule) ==
    /\ aborted = ""
    /\ exe_key.begun /\ exe_key.ok
    /\ IF ~exe_key.cache /\ ~ndebug
       THEN /\ aborted' = "exe_key_it_next: no cache"
            /\ UNCHANGED exe_key
       ELSE /\ exe_key' = Returned(it_next(exe_key, with_rule))
            /\ UNCHANGED aborted
    /\ KeyUnchanged

\* pcintr_cleanup_instance, called outside purc_run: every coroutine of
\* the heap is unlinked and destroyed, stack_release destroys the frames
\* left on its stack from the bottom frame on
pcintr_cleanup_instance ==
    /\ aborted = ""
    /\ pc \in {"init", "stopped"}
    /\ coroutines # <<>>
    /\ LET gone == {c \in CoIds : life[c] = "alive"}
       IN  /\ life' = [c \in CoIds |-> IF c \in gone THEN "destroyed"
                                       ELSE life[c]]
           /\ frames' = [c \in CoIds |-> IF c \in gone THEN <<>>
                                         ELSE frames[c]]
           /\ observers' = [c \in CoIds |-> IF c \in gone THEN NoObservers
                                            ELSE observers[c]]
           /\ hist' = [hist EXCEPT !.on_cleanup =
                          [c \in CoIds |-> IF c \in gone THEN @[c] + 1
                                           ELSE @[c]],
                                    !.revoked = ReleasedBy(coroutines),
                                    !.hooks =
                          [c \in CoIds |-> IF c \in gone
                                           THEN @[c] \o unlink_and_destroy_hooks
                                           ELSE @[c]]]
           /\ ctxts' = [ctxts EXCEPT !.destroyed = [i \in 1..MaxCtxt |->
                  @[i] + Cardinality({<<c, n>> \in gone \X FrameAddrs :
                            n <= Len(frames[c])
                              /\ frames[c][n].ctxt.id = i})]]
    /\ coroutines' = <<>>
    /\ pc' = "cleaned"
    /\ UNCHANGED <<ndebug, rtVars, evVars, timers, aborted, loopq, stop_req,
                   rc, hm, running_coroutine, doc, co_state, exited, except,
                   waits, stage, errcode, reqVars>>
    /\ async' = StackReleased

\* ------------------------------------------------------------------------
\* $TIMERS: a set of objects {id, interval, active}, each with a backing
\* timer kept in its __handle.  Of a backing timer the model keeps: made
\* (the object has a __handle), live (PurcTimer objects created for it and
\* not deleted), interval (m_interval), running and armed (the interval
\* given to startRepeating), listener (a change listener is registered),
\* and fires (a bit turned by each fire).

\* purc_variant_cast_to_ulongint without force into ret, zero before the
\* call: a number gives its value, a string leaves ret as it is
purc_variant_cast_to_ulongint(is_number, v) == IF is_number THEN v ELSE 0

pcintr_timer_set_interval(t, interval) == [t EXCEPT !.interval = interval]
pcintr_timer_start(t) == [t EXCEPT !.running = TRUE, !.armed = t.interval]

\* get_inner_timer with every allocation successful: the timer of the
\* __handle, or a new timer with a change listener on the object
get_inner_timer(t) ==
    IF t.made THEN t
    ELSE [t EXCEPT !.made = TRUE, !.live = t.live + 1, !.listener = TRUE]

\* a destroy_inner_timer that leaves the change listener registered
destroy_inner_timer_keeps_listener(t) ==
    IF t.made THEN [NoTimer EXCEPT !.live = t.live - 1, !.fires = t.fires,
                                   !.listener = TRUE]
    ELSE t

\* destroy_inner_timer: the listener is revoked, the __handle removed and
\* the timer deleted
destroy_inner_timer(t) ==
    IF t.made THEN [NoTimer EXCEPT !.live = t.live - 1, !.fires = t.fires]
    ELSE t

\* timer_listener_handler for a change of the object: argv[0] is the new
\* key, argv[1] the new value
timer_listener_handler(t, argv) ==
    LET timer == get_inner_timer(t)
    IN  IF argv[1] = "interval"
        THEN pcintr_timer_set_interval(timer,
                 purc_variant_cast_to_ulongint(FALSE, argv[1]))
        ELSE IF argv[1] = "active"
        THEN IF argv[2] = "on" THEN pcintr_timer_start(timer)
             ELSE [timer EXCEPT !.running = FALSE]
        ELSE timer

\* an object joins $TIMERS: timers_listener_handler for grow
timers_grow(id, interval, active) ==
    /\ aborted = ""
    /\ ~timers.obj[id].in
    /\ LET timer == pcintr_timer_set_interval(get_inner_timer(timers.tm[id]),
                        purc_variant_cast_to_ulongint(TRUE, interval))
       IN  timers' = [timers EXCEPT
              !.obj[id] = [in |-> TRUE, interval |-> interval,
                           active |-> active],
              !.tm[id] = IF active = "on" THEN pcintr_timer_start(timer)
                         ELSE timer]
    /\ UNCHANGED <<ndebug, rtVars, evVars, ctxts, async, aborted, loopVars, coVars,
                   observers, reqVars, hist>>

\* an object leaves $TIMERS: timers_listener_handler for shrink
timers_shrink(id) ==
    /\ aborted = ""
    /\ timers.obj[id].in
    /\ timers' = [timers EXCEPT !.obj[id] = NoTimerObj,
                                !.tm[id] = destroy_inner_timer(@)]
    /\ UNCHANGED <<ndebug, rtVars, evVars, ctxts, async, aborted, loopVars, coVars,
                   observers, reqVars, hist>>

\* a property of an object of $TIMERS gets a new value; the change
\* listener of the object, when there is one, runs after the mutation
timers_change(id, key, val) ==
    /\ aborted = ""
    /\ timers.obj[id].in
    /\ \/ key = "interval" /\ val \in (1..MaxInterval)
          /\ val # timers.obj[id].interval
       \/ key = "active" /\ val \in {"on", "off"}
          /\ val # timers.obj[id].active
    /\ timers' = [timers EXCEPT
          !.obj[id] = IF key = "interval" THEN [@ EXCEPT !.interval = val]
                      ELSE [@ EXCEPT !.active = val],
          !.tm[id] = IF @.listener THEN timer_listener_handler(@, <<key, val>>)
                     ELSE @]
    /\ UNCHANGED <<ndebug, rtVars, evVars, ctxts, async, aborted, loopVars, coVars,
                   observers, reqVars, hist>>

\* a running backing timer fires (timer_fire_func dispatches "expired")
timer_fire_func(id) ==
    /\ aborted = ""
    /\ timers.tm[id].live > 0
    /\ timers.tm[id].running
    /\ timers' = [timers EXCEPT !.tm[id].fires = 1 - @]
    /\ UNCHANGED <<ndebug, rtVars, evVars, ctxts, async, aborted, loopVars, coVars,
                   observers, reqVars, hist>>

\* ------------------------------------------------------------------------
\* The symbol variables and the DOM point of the frames

\* the values the handlers of the model store: one variant that is not a
\* default of any symbol
Variants == {[type |-> "string", v |-> 0]}

\* an element handler moves the DOM point of its frame
set_edom_element(c, e) ==
    /\ InHandler(c)
    /\ Bottom(c).edom # e
    /\ frames' = [frames EXCEPT ![c] = WithBottom(c, [Bottom(c) EXCEPT
                                                        !.edom = e])]
    /\ UNCHANGED <<ndebug, extVars, async, aborted, loopVars, coroutines,
                   running_coroutine, life, doc, co_state, exited, except,
                   waits, stage, errcode, observers, reqVars, hist>>

\* pcintr_set_symbol_var on frame n of the stack: PC_ASSERT(val !=
\* PURC_VARIANT_INVALID) aborts; the old value is cleared and val stored
pcintr_set_symbol_var(c, n, symbol, val) ==
    /\ InHandler(c)
    /\ n \in 1..Len(frames[c])
    /\ val = PURC_VARIANT_INVALID => ~ndebug
    /\ frames[c][n].sym[symbol] # val
    /\ IF val = PURC_VARIANT_INVALID
       THEN aborted' = "pcintr_set_symbol_var: invalid value"
            /\ UNCHANGED frames
       ELSE frames' = [frames EXCEPT ![c][n].sym[symbol] = val]
            /\ UNCHANGED aborted
    /\ UNCHANGED <<ndebug, extVars, async, loopVars, coroutines,
                   running_coroutine, life, doc, co_state, exited, except,
                   waits, stage, errcode, observers, reqVars, hist>>

\* pcintr_set_input_var: set_lessthan_symval on the bottom frame stores
\* val, or undefined for an invalid val; when undefined cannot be made
\* (ok false) the old value stays
pcintr_set_input_var(c, val, ok) ==
    /\ InHandler(c)
    /\ LET new == IF val # PURC_VARIANT_INVALID THEN val
                  ELSE IF ok THEN [type |-> "undefined", v |-> 0]
                  ELSE Bottom(c).sym["<"]
       IN  /\ new # Bottom(c).sym["<"]
           /\ frames' = [frames EXCEPT ![c][Len(frames[c])].sym["<"] = new]
    /\ UNCHANGED <<ndebug, extVars, async, aborted, loopVars, coroutines,
                   running_coroutine, life, doc, co_state, exited, except,
                   waits, stage, errcode, observers, reqVars, hist>>

\* ------------------------------------------------------------------------
\* The scheduler, the frame machine and the message layer
Next ==
    \/ \E c \in CoIds, d \in DocKinds : purc_load_hvml_from_rwstream_ex(c, d)
    \/ purc_run
    \/ DispatchRunCoroutines
    \/ run_co
    \/ \E c \in CoIds, b, k \in BOOLEAN : after_pushed(c, b, k)
    \/ \E c \in CoIds, e \in {NoElement} \cup PlainElements, k \in BOOLEAN :
          on_select_child(c, e, k)
    \/ \E c \in CoIds, b, k \in BOOLEAN : on_rerun(c, b, k)
    \/ \E c \in CoIds, b, k \in BOOLEAN : on_popping(c, b, k)
    \/ run_coroutines_end
    \/ purc_run_return
    \/ \E c \in CoIds, k \in ObsKinds, i \in 1..MaxObsSched :
          pcintr_register_observer(c, k, "change", NoSubType, FALSE, FALSE, i)
    \/ \E c \in CoIds, k \in ObsKinds, i \in ObsIds :
          pcintr_revoke_observer(c, k, i)
    \/ \E c \in CoIds : purc_set_error(c)
    \/ \E t \in CoIds, k \in ObsKinds :
          pcintr_dispatch_message_ex(t, k, "change", NoSubType)
    \/ \E ub \in UBOutcomes : DispatchHandleMessage(ub)
    \/ \E ub \in UBOutcomes : pcintr_handle_message(ub)

\* The request queues, driven by the handlers of one document
NextReq ==
    \/ purc_load_hvml_from_rwstream_ex(1, "general")
    \/ purc_run
    \/ DispatchRunCoroutines
    \/ run_co
    \/ \E c \in CoIds, b, k \in BOOLEAN : after_pushed(c, b, k)
    \/ \E c \in CoIds, e \in {NoElement} \cup PlainElements, k \in BOOLEAN :
          on_select_child(c, e, k)
    \/ \E c \in CoIds, b, k \in BOOLEAN : on_rerun(c, b, k)
    \/ \E c \in CoIds, b, k \in BOOLEAN : on_popping(c, b, k)
    \/ run_coroutines_end
    \/ purc_run_return
    \/ \E c \in CoIds, t \in ReqTypes, ok \in BOOLEAN : pcintr_post_req(c, t, ok)
    \/ \E c \in CoIds, r \in ReqIds : pcintr_cancel_req(c, r)
    \/ \E c \in CoIds, r \in ReqIds : pcintr_hibernate_active_req(c, r)
    \/ \E r \in ReqIds, ub \in UBOutcomes : pcintr_activate_req(r, ub)
    \/ on_req_activating
    \/ on_req_dying

\* The message layer with several observers on one document, all of them
\* on native values
MsgKinds == {"native"}
NextMsg ==
    \/ purc_load_hvml_from_rwstream_ex(1, "general")
    \/ purc_run
    \/ DispatchRunCoroutines
    \/ run_co
    \/ \E c \in CoIds, b, k \in BOOLEAN : after_pushed(c, b, k)
    \/ \E c \in CoIds, e \in {NoElement} \cup PlainElements, k \in BOOLEAN :
          on_select_child(c, e, k)
    \/ \E c \in CoIds, b, k \in BOOLEAN : on_rerun(c, b, k)
    \/ \E c \in CoIds, b, k \in BOOLEAN : on_popping(c, b, k)
    \/ run_coroutines_end
    \/ purc_run_return
    \/ \E c \in CoIds, k \in MsgKinds, a \in MsgAtoms, i \in ObsIds :
          pcintr_register_observer(c, k, a, NoSubType, FALSE, FALSE, i)
    \/ \E c \in CoIds, k \in MsgKinds, i \in ObsIds :
          pcintr_revoke_observer(c, k, i)
    \/ \E t \in CoIds, k \in MsgKinds, a \in MsgAtoms :
          pcintr_dispatch_message_ex(t, k, a, NoSubType)
    \/ \E ub \in UBOutcomes : DispatchHandleMessage(ub)
    \/ \E ub \in UBOutcomes : pcintr_handle_message(ub)

\* Observers with sub-type patterns on two values of the common list, and
\* messages with sub-types dispatched to them
SubObserved == {"string", "object"}
NextSub ==
    \/ purc_load_hvml_from_rwstream_ex(1, "general")
    \/ purc_run
    \/ DispatchRunCoroutines
    \/ run_co
    \/ \E c \in CoIds, b, k \in BOOLEAN : after_pushed(c, b, k)
    \/ \E c \in CoIds, e \in {NoElement} \cup PlainElements, k \in BOOLEAN :
          on_select_child(c, e, k)
    \/ \E c \in CoIds, b, k \in BOOLEAN : on_rerun(c, b, k)
    \/ \E c \in CoIds, b, k \in BOOLEAN : on_popping(c, b, k)
    \/ run_coroutines_end
    \/ purc_run_return
    \/ \E c \in CoIds, k \in SubObserved, i \in 1..MaxObsSched,
          s \in {NoSubType} \cup {<<x>> : x \in SubTypePatterns} :
          pcintr_register_observer(c, k, "change", s, FALSE, FALSE, i)
    \/ \E t \in CoIds, k \in SubObserved, a \in MsgAtoms,
          s \in {NoSubType} \cup {<<x>> : x \in SubTypeStrings} :
          pcintr_dispatch_message_ex(t, k, a, s)
    \/ \E ub \in UBOutcomes : DispatchHandleMessage(ub)
    \/ \E ub \in UBOutcomes : pcintr_handle_message(ub)

\* The getters of an expression variable, called by the handlers of one
\* document and by the loop while the expression changes value
NextGet ==
    \/ purc_load_hvml_from_rwstream_ex(1, "general")
    \/ purc_run
    \/ DispatchRunCoroutines
    \/ run_co
    \/ \E c \in CoIds, b, k \in BOOLEAN : after_pushed(c, b, k)
    \/ \E c \in CoIds, e \in {NoElement} \cup PlainElements, k \in BOOLEAN :
          on_select_child(c, e, k)
    \/ \E c \in CoIds, b, k \in BOOLEAN : on_rerun(c, b, k)
    \/ \E c \in CoIds, b, k \in BOOLEAN : on_popping(c, b, k)
    \/ run_coroutines_end
    \/ purc_run_return
    \/ \E v \in EvValues : ev_change(v)
    \/ \E c \in CoIds \cup {NULL}, key \in EvKeys, ok \in BOOLEAN :
          pcvcm_ev_call(c, key, ok)

\* Observers with callbacks, revoked by the handlers of one document or
\* released with its stack
NextRev ==
    \/ purc_load_hvml_from_rwstream_ex(1, "general")
    \/ purc_run
    \/ DispatchRunCoroutines
    \/ run_co
    \/ \E c \in CoIds, b, k \in BOOLEAN : after_pushed(c, b, k)
    \/ \E c \in CoIds, e \in {NoElement} \cup PlainElements, k \in BOOLEAN :
          on_select_child(c, e, k)
    \/ \E c \in CoIds, b, k \in BOOLEAN : on_rerun(c, b, k)
    \/ \E c \in CoIds, b, k \in BOOLEAN : on_popping(c, b, k)
    \/ run_coroutines_end
    \/ purc_run_return
    \/ \E c \in CoIds, k \in {"common", "native"}, i \in ObsIds,
          r, f \in BOOLEAN :
          pcintr_register_observer(c, k, "change", <<"click">>, r, f, i)
    \/ \E c \in CoIds, k \in ObsKinds, i \in ObsIds :
          pcintr_revoke_observer(c, k, i)
    \/ pcintr_cleanup_instance

\* Documents torn down by the scheduler, by a failing load or with the
\* instance
NextHooks ==
    \/ \E c \in CoIds, d \in DocKinds : purc_load_hvml_from_rwstream_ex(c, d)
    \/ \E c \in CoIds : purc_load_hvml_fails(c)
    \/ purc_run
    \/ DispatchRunCoroutines
    \/ run_co
    \/ \E c \in CoIds, b, k \in BOOLEAN : after_pushed(c, b, k)
    \/ \E c \in CoIds, e \in {NoElement} \cup PlainElements, k \in BOOLEAN :
          on_select_child(c, e, k)
    \/ \E c \in CoIds, b, k \in BOOLEAN : on_rerun(c, b, k)
    \/ \E c \in CoIds, b, k \in BOOLEAN : on_popping(c, b, k)
    \/ run_coroutines_end
    \/ purc_run_return
    \/ pcintr_cleanup_instance

\* A match frame selecting the children of its element
NextSel ==
    \/ \E ch \in ChildLists, f, m \in BOOLEAN : match_frame_pushed(ch, f, m)
    \/ \E k \in BOOLEAN : match_on_select_child(k)

\* One instance of the KEY executor on an object
NextKey ==
    \/ \E t \in {"CHOOSE", "ITERATE"}, o \in Objects : exe_key_create(t, o)
    \/ \E r \in Rules : exe_key_choose(r)
    \/ \E r \in Rules : exe_key_it_begin(r)
    \/ exe_key_it_value
    \/ \E w \in BOOLEAN : exe_key_it_next(w)

\* One document attached to the renderer
NextRdr ==
    \E ws, win, tab, caps \in BOOLEAN, sh \in Handles, r1, r2, r3 \in Replies :
        purc_attach_vdom_to_renderer(ws, win, tab, caps, sh, r1, r2, r3)

\* Observers on values of every kind, registered and revoked by one document
NextObs ==
    \/ purc_load_hvml_from_rwstream_ex(1, "general")
    \/ purc_run
    \/ DispatchRunCoroutines
    \/ run_co
    \/ \E c \in CoIds, b, k \in BOOLEAN : after_pushed(c, b, k)
    \/ \E c \in CoIds, e \in {NoElement} \cup PlainElements, k \in BOOLEAN :
          on_select_child(c, e, k)
    \/ \E c \in CoIds, b, k \in BOOLEAN : on_rerun(c, b, k)
    \/ \E c \in CoIds, b, k \in BOOLEAN : on_popping(c, b, k)
    \/ run_coroutines_end
    \/ purc_run_return
    \/ \E c \in CoIds, k \in ObsKinds, i \in ObsIds :
          pcintr_register_observer(c, k, "change", NoSubType, FALSE, FALSE, i)
    \/ \E c \in CoIds, k \in ObsKinds, i \in ObsIds :
          pcintr_revoke_observer(c, k, i)

\* The event timer scanning the expression variable one document observes
NextEv ==
    \/ purc_load_hvml_from_rwstream_ex(1, "general")
    \/ purc_run
    \/ DispatchRunCoroutines
    \/ run_co
    \/ \E c \in CoIds, b, k \in BOOLEAN : after_pushed(c, b, k)
    \/ \E c \in CoIds, e \in {NoElement} \cup PlainElements, k \in BOOLEAN :
          on_select_child(c, e, k)
    \/ \E c \in CoIds, b, k \in BOOLEAN : on_rerun(c, b, k)
    \/ \E c \in CoIds, b, k \in BOOLEAN : on_popping(c, b, k)
    \/ run_coroutines_end
    \/ purc_run_return
    \/ \E c \in CoIds, i \in ObsIds :
          pcintr_register_observer(c, "native", "change", NoSubType, FALSE, FALSE, i)
    \/ \E c \in CoIds : on_observe(c)
    \/ \E v \in EvValues : ev_change(v)
    \/ \E t \in CoIds : pcintr_event_timer_fire(t)

\* Asynchronous requests started and completed by the handlers of a document
NextAsync ==
    \/ purc_load_hvml_from_rwstream_ex(1, "general")
    \/ purc_run
    \/ DispatchRunCoroutines
    \/ run_co
    \/ \E c \in CoIds, b, k \in BOOLEAN : after_pushed(c, b, k)
    \/ \E c \in CoIds, e \in {NoElement} \cup PlainElements, k \in BOOLEAN :
          on_select_child(c, e, k)
    \/ \E c \in CoIds, b, k \in BOOLEAN : on_rerun(c, b, k)
    \/ \E c \in CoIds, b, k \in BOOLEAN : on_popping(c, b, k)
    \/ run_coroutines_end
    \/ purc_run_return
    \/ \E c \in CoIds, i \in AsyncIds : pcintr_save_async_request_id(c, i)
    \/ \E c \in CoIds, i \in AsyncIds : pcintr_remove_async_request_id(c, i)

\* Symbol variables set by the handlers of a document
NextSym ==
    \/ purc_load_hvml_from_rwstream_ex(1, "general")
    \/ purc_run
    \/ DispatchRunCoroutines
    \/ run_co
    \/ \E c \in CoIds, b, k \in BOOLEAN : after_pushed(c, b, k)
    \/ \E c \in CoIds, e \in {NoElement} \cup PlainElements, k \in BOOLEAN :
          on_select_child(c, e, k)
    \/ \E c \in CoIds, b, k \in BOOLEAN : on_rerun(c, b, k)
    \/ \E c \in CoIds, b, k \in BOOLEAN : on_popping(c, b, k)
    \/ run_coroutines_end
    \/ purc_run_return
    \/ \E c \in CoIds, e \in DomPoints \cup {NULL} : set_edom_element(c, e)
    \/ \E c \in CoIds, n \in FrameAddrs, s \in {"?", "@", "!"},
          val \in Variants \cup {PURC_VARIANT_INVALID} :
          pcintr_set_symbol_var(c, n, s, val)
    \/ \E c \in CoIds, val \in Variants \cup {PURC_VARIANT_INVALID},
          ok \in BOOLEAN : pcintr_set_input_var(c, val, ok)

\* The mutations of $TIMERS and the fires of its timers
NextTm ==
    \/ \E id \in TimerIds, i \in (1..MaxInterval), a \in {"on", "off"} :
          timers_grow(id, i, a)
    \/ \E id \in TimerIds : timers_shrink(id)
    \/ \E id \in TimerIds, v \in (1..MaxInterval) :
          timers_change(id, "interval", v)
    \/ \E id \in TimerIds, v \in {"on", "off"} :
          timers_change(id, "active", v)
    \/ \E id \in TimerIds : timer_fire_func(id)

\* A document whose children are match elements
NextMatch ==
    \/ purc_load_hvml_from_rwstream_ex(1, "general")
    \/ purc_run
    \/ DispatchRunCoroutines
    \/ run_co
    \/ \E c \in CoIds, b, k \in BOOLEAN : after_pushed(c, b, k)
    \/ \E c \in CoIds, k \in BOOLEAN,
          e \in {NoElement} \cup PlainElements \cup MatchElements :
          on_select_child(c, e, k)
    \/ \E c \in CoIds, e \in DomPoints \cup {NULL} : set_edom_element(c, e)
    \/ \E c \in CoIds, b, k \in BOOLEAN : on_rerun(c, b, k)
    \/ \E c \in CoIds, b, k \in BOOLEAN : on_popping(c, b, k)
    \/ \E c \in CoIds, b, k \in BOOLEAN : match_after_pushed(c, b, k)
    \/ \E c \in CoIds, k \in BOOLEAN : match_on_popping(c, k)
    \/ run_coroutines_end
    \/ purc_run_return
    \/ \E c \in CoIds, n \in FrameAddrs, v \in 1..MaxStrings :
          pcintr_set_symbol_var(c, n, "?", [type |-> "string", v |-> v])
    \/ pcintr_cleanup_instance

\* Routines posted by other threads while documents without children run
NextRt ==
    \/ \E c \in CoIds : purc_load_hvml_from_rwstream_ex(c, "empty")
    \/ purc_run
    \/ DispatchRunCoroutines
    \/ run_co
    \/ \E c \in CoIds, b, k \in BOOLEAN : after_pushed(c, b, k)
    \/ \E c \in CoIds, e \in {NoElement} \cup PlainElements, k \in BOOLEAN :
          on_select_child(c, e, k)
    \/ \E c \in CoIds, b, k \in BOOLEAN : on_popping(c, b, k)
    \/ run_coroutines_end
    \/ purc_run_return
    \/ \E p \in PosterIds, t \in CoIds : pcintr_post_routine(p, t)
    \/ \E p \in PosterIds : pcintr_post_routine_wakeup(p)
    \/ wakeup_for_routines

Spec == Init /\ [][Next]_vars
SpecHooks == Init /\ [][NextHooks]_vars
SpecSel == Init /\ [][NextSel]_vars
SpecRdr == Init /\ [][NextRdr]_vars
SpecKey == Init /\ [][NextKey]_vars
SpecReq == Init /\ [][NextReq]_vars
SpecRt == Init /\ [][NextRt]_vars
SpecMsg == Init /\ [][NextMsg]_vars
SpecObs == Init /\ [][NextObs]_vars
SpecEv == Init /\ [][NextEv]_vars
SpecAsync == Init /\ [][NextAsync]_vars
SpecSym == Init /\ [][NextSym]_vars
SpecTm == Init /\ [][NextTm]_vars
SpecMatch == Init /\ [][NextMatch]_vars
SpecSub == Init /\ [][NextSub]_vars
SpecRev == Init /\ [][NextRev]_vars
SpecGet == Init /\ [][NextGet]_vars

\* The loop thread: purc_run and the callbacks the run loop executes.  The
\* thread runs whenever it has something to do; what the handlers call and
\* what is dispatched from outside is not forced.
LoopThread ==
    \/ purc_run
    \/ DispatchRunCoroutines
    \/ run_co
    \/ \E c \in CoIds, b, k \in BOOLEAN : after_pushed(c, b, k)
    \/ \E c \in CoIds, e \in {NoElement} \cup PlainElements, k \in BOOLEAN :
          on_select_child(c, e, k)
    \/ \E c \in CoIds, b, k \in BOOLEAN : on_rerun(c, b, k)
    \/ \E c \in CoIds, b, k \in BOOLEAN : on_popping(c, b, k)
    \/ run_coroutines_end
    \/ purc_run_return
    \/ \E ub \in UBOutcomes : DispatchHandleMessage(ub)
    \/ \E ub \in UBOutcomes : pcintr_handle_message(ub)

FairSpec == Spec /\ WF_vars(LoopThread)

\* the same loop thread with the routines wake-up, and posters that finish
\* the call they are in
FairSpecRt ==
    /\ SpecRt
    /\ WF_vars(LoopThread \/ wakeup_for_routines)
    /\ \A p \in PosterIds : WF_vars(pcintr_post_routine_wakeup(p))

\* ------------------------------------------------------------------------
\* Properties

\* a coroutine created by a load and not yet passed to coroutine_destroy
Alive(c) == life[c] = "alive"

\* C1: every live coroutine is in READY, RUN or WAIT, at most one coroutine
\* is in RUN, and while the loop is between dispatches no coroutine is in
\* RUN and heap->running_coroutine is null.
C1_StatesAndRunning ==
    /\ \A c \in CoIds : Alive(c) => co_state[c] \in CoStates
    /\ Cardinality({c \in CoIds : Alive(c) /\ co_state[c] = CO_STATE_RUN}) <= 1
    /\ pc \in {"init", "idle", "exiting", "stopped"} =>
          /\ \A c \in CoIds : Alive(c) => co_state[c] # CO_STATE_RUN
          /\ running_coroutine = NULL

\* two passes have run: one coroutine waits for an event, another is READY
\* with frames left, and the loop is back between dispatches
C1_Witness ==
    /\ pc = "idle"
    /\ rc.stepped # <<>>
    /\ \E c, d \in CoIds :
          /\ Alive(c) /\ co_state[c] = CO_STATE_WAIT
          /\ Alive(d) /\ co_state[d] = CO_STATE_READY /\ frames[d] # <<>>

\* C2: a coroutine is never terminated (hooks run, unlinked, destroyed)
\* while it still has a registered observer.
C2_NotTerminatedWhileObserved ==
    \A c \in CoIds : life[c] = "destroyed" => hist.term_obs[c] = 0

\* C3: when a frame step returns, a coroutine with frames left is READY
\* whatever its waits counter, and one whose stack is empty with waits = 0
\* is marked exited.
C3_AfterStep ==
    [][(pc = "step" /\ pc' = "rc") =>
         LET c == running_coroutine
         IN  /\ frames'[c] # <<>> => co_state'[c] = CO_STATE_READY
             /\ (frames'[c] = <<>> /\ waits'[c] = 0) => exited'[c] = 1]_vars

\* a step has just returned on a coroutine with frames left and waits > 0,
\* and a coroutine whose stack became empty with waits = 0 has exited
C3_Witness ==
    /\ pc = "rc"
    /\ rc.stepped # <<>>
    /\ LET c == rc.stepped[Len(rc.stepped)]
       IN  /\ Alive(c) /\ frames[c] # <<>> /\ waits[c] > 0
           /\ co_state[c] = CO_STATE_READY
    /\ \E d \in CoIds : /\ life[d] = "destroyed" /\ waits[d] = 0
                         /\ exited[d] = 1

\* C4: a coroutine that is READY is eventually stepped again.
C4_ReadySteppedAgain ==
    \A c \in CoIds :
        (Alive(c) /\ co_state[c] = CO_STATE_READY)
            ~> (co_state[c] = CO_STATE_RUN)

\* the coroutine of the only document loaded, one without children, ran
\* its one frame through the three steps, was terminated and unlinked, and
\* the loop has stopped
C5_Witness ==
    /\ doc[1] = "empty"
    /\ life = [c \in CoIds |-> IF c = 1 THEN "destroyed" ELSE "none"]
    /\ coroutines = <<>>
    /\ frames[1] = <<>>
    /\ hist.trace[1] = <<NEXT_STEP_AFTER_PUSHED, NEXT_STEP_SELECT_CHILD,
                          NEXT_STEP_ON_POPPING>>
    /\ hist.on_terminated[1] = 1
    /\ stop_req
    /\ pc = "stopped"

\* C5: a document without children and without observers, loaded alone:
\* one coroutine with one frame, which goes AFTER_PUSHED, SELECT_CHILD,
\* ON_POPPING and is popped; the coroutine is terminated and removed and
\* the loop is stopped.
C5_EmptyDocumentTerminates ==
    LET OnlyEmptyDocument ==
            /\ coroutines = <<1>>
            /\ doc[1] = "empty"
            /\ \A c \in CoIds \ {1} : life[c] = "none"
    IN  /\ [](OnlyEmptyDocument =>
                Len(frames[1]) = 1 /\ NrObservers(1) = 0)
        /\ (pc = "idle" /\ OnlyEmptyDocument) ~> C5_Witness

\* C6: whatever post, activate, hibernate and cancel do, the state of a
\* request only moves forward: PENDING -> ACTIVATING -> HIBERNATING or
\* PENDING/ACTIVATING -> CANCELLED -> DYING.
C6_ForwardOnly ==
    [][\A r \in ReqIds :
          reqs'[r].state # reqs[r].state =>
              <<reqs[r].state, reqs'[r].state>> \in
                  {<<"", REQ_STATE_PENDING>>,
                   <<REQ_STATE_PENDING, REQ_STATE_ACTIVATING>>,
                   <<REQ_STATE_ACTIVATING, REQ_STATE_HIBERNATING>>,
                   <<REQ_STATE_PENDING, REQ_STATE_CANCELLED>>,
                   <<REQ_STATE_ACTIVATING, REQ_STATE_CANCELLED>>,
                   <<REQ_STATE_CANCELLED, REQ_STATE_DYING>>}]_vars

\* one request went down the activation branch and one down the cancel
\* branch, each to its end
C6_Witness ==
    \E r, q \in ReqIds :
        /\ reqs[r].state = REQ_STATE_HIBERNATING
        /\ reqs[q].state = REQ_STATE_DYING

\* C7: pcintr_cancel_req on a PENDING or ACTIVATING request leaves it
\* CANCELLED, has called ops->cancel once for it and returns normally.
C7_CancelMovesToCancelled ==
    [][\A c \in CoIds, r \in ReqIds :
          (/\ reqs[r].state \in {REQ_STATE_PENDING, REQ_STATE_ACTIVATING}
           /\ pcintr_cancel_req(c, r))
          => /\ reqs'[r].state = REQ_STATE_CANCELLED
             /\ reqs'[r].cancels = reqs[r].cancels + 1
             /\ aborted' = ""]_vars

C9_SyncOnIssuingFrame ==
    [][(/\ on_req_activating
        /\ active_reqs # <<>>
        /\ reqs[Head(active_reqs)].type = REQ_TYPE_SYNC)
       => LET r == Head(active_reqs)
          IN  IF reqs[r].frame = BottomAddr(reqs[r].owner)
              THEN reqs'[r].callbacks = reqs[r].callbacks + 1
              ELSE /\ reqs'[r].callbacks = reqs[r].callbacks
                   /\ \E i \in 1..Len(hibernating_reqs') :
                         hibernating_reqs'[i] = r]_vars

\* C10: once its owner has been destroyed, no request is still pending or
\* activated.
C10_NoRequestOutlivesOwner ==
    \A r \in ReqIds :
        (reqs[r].state # "" /\ ~reqs[r].freed
            /\ life[reqs[r].owner] = "destroyed")
        => reqs[r].state \notin {REQ_STATE_PENDING, REQ_STATE_ACTIVATING}

\* ------------------------------------------------------------------------
\* C11: routines posted to the same target run in the order they were
\* enqueued: a wake-up that finds routines queued runs all of them, in
\* queue order, and the process survives it.
C11_RoutinesRunInOrder ==
    [][(wakeup_for_routines /\ routines # <<>>)
       => (aborted' = "" /\ rt_ran' = rt_ran \o routines)]_vars

\* C12: under a fair loop every routine posted with success is eventually
\* run, and run exactly once.
C12_RoutineRunOnce ==
    \A r \in RtIds :
        (rt_posted >= r)
            ~> (Len(SelectSeq(rt_ran, LAMBDA x : x = r)) = 1)

\* ------------------------------------------------------------------------
\* C13: every registered observer is linked in exactly one of the three
\* lists of its coroutine, the list get_observer_list searches for its
\* observed value, and waits of the coroutine is at least the number of
\* its registered observers.
C13_ObserverInOneList ==
    \A c \in CoIds :
        /\ \A k \in ObsKinds : \A n \in 1..Len(observers[c][k]) :
               /\ k = get_observer_list(observers[c][k][n].observed)
               /\ \A l \in ObsKinds : \A m \in 1..Len(observers[c][l]) :
                      observers[c][l][m].id = observers[c][k][n].id
                          => (l = k /\ m = n)
        /\ waits[c] >= NrObservers(c)

\* a running handler has observers in two of the lists, one of them for a
\* native value, and both are counted in waits
C13_Witness ==
    \E c \in CoIds :
        /\ Alive(c) /\ InStep(c)
        /\ NrObservers(c) = 2 /\ waits[c] = 2
        /\ Len(observers[c]["native"]) = 1

\* ------------------------------------------------------------------------
\* C14: the delivery of a message pushes exactly one frame for each
\* observer that matches it and none for the others; the frame is the
\* observer's, starts at AFTER_PUSHED, and the coroutine is made READY.
\* Stated for the deliveries in which no frame allocation fails: every
\* step of the walk leaves the process running, a push is for a matching
\* observer, and when the walk returns every observer that matched at the
\* start and is still registered and matching has got exactly one frame.
C14_OneFramePerMatch ==
    [][(pc = "hm" /\ aborted = ""
          /\ ~(hm.phase = "body" /\ hm.p # NULL
                 /\ FreshAddr(frames[hm.co]) = NULL))
       => LET t == hm.co
              lst == observers[t][get_observer_list(hm.src)]
          IN  /\ aborted' = ""
              /\ Len(hm'.pushed) > Len(hm.pushed)
                   => /\ is_observer_match(Entry(lst, hm.p), hm.src, hm.atom, hm.sub)
                      /\ Len(frames'[t]) = Len(frames[t]) + 1
                      /\ SubSeq(frames'[t], 1, Len(frames[t])) = frames[t]
                      /\ Bottom(t)'.addr = FreshAddr(frames[t])
                      /\ Bottom(t)'.next_step = NEXT_STEP_AFTER_PUSHED
                      /\ Bottom(t)'.obs = hm.p
                      /\ co_state'[t] = CO_STATE_READY
              /\ hm' = NoMsg
                   => \A o \in hm.match0 :
                        (Linked(lst, o)
                           /\ is_observer_match(Entry(lst, o), hm.src, hm.atom, hm.sub))
                        => Cardinality({m \in 1..Len(hm.pushed) :
                                           hm.pushed[m] = o}) = 1]_vars

\* ------------------------------------------------------------------------
\* C15: messages for the same coroutine are delivered in the order they
\* were dispatched: a delivery starts only when no other is in progress,
\* and whenever a delivery starts or pushes a frame, every message for the
\* same coroutine still queued was dispatched after the one delivered.
C15_DeliveredInDispatchOrder ==
    [][/\ (\E ub \in UBOutcomes : DispatchHandleMessage(ub))
            => /\ hm = NoMsg
               /\ \A i \in 2..Len(loopq) :
                    (loopq[i].kind = "handle_message"
                       /\ loopq[i].co = loopq[1].co)
                    => loopq[i].seq > loopq[1].seq
       /\ (pc = "hm" /\ Len(hm'.pushed) > Len(hm.pushed))
            => \A i \in 1..Len(loopq) :
                    (loopq[i].kind = "handle_message" /\ loopq[i].co = hm.co)
                    => loopq[i].seq > hm.seq]_vars

\* a frame has been pushed for a message dispatched while an earlier one
\* for the same coroutine was queued or being delivered, and a third
\* message for that coroutine waits behind it
C15_Witness ==
    /\ hm.co # NULL /\ hm.seq = 2 /\ hm.pushed # <<>>
    /\ \E i \in 1..Len(loopq) :
          loopq[i].kind = "handle_message" /\ loopq[i].co = hm.co
    /\ \E n \in 1..Len(frames[hm.co]) : frames[hm.co][n].obs # NULL

\* ------------------------------------------------------------------------
\* C16: no observer runs between two steps of another observer on the same
\* coroutine: when a step runs on the frame pushed for an observer, no
\* frame pushed for another observer of the coroutine is between its first
\* step and its pop.
C16_ObserverRunsToPop ==
    [][(pc = "step" /\ pc' = "rc" /\ running_coroutine # NULL)
       => LET c == running_coroutine
          IN  Bottom(c).obs # NULL
                => \A n \in 1..Len(frames[c]) :
                      (frames[c][n].obs # NULL
                         /\ frames[c][n].obs # Bottom(c).obs)
                      => frames[c][n].next_step = NEXT_STEP_AFTER_PUSHED]_vars

\* ------------------------------------------------------------------------
\* C17: at the end of every frame step the thread-local error is zero, and
\* when the step left it non-zero the exception record of the coroutine
\* holds the error and the step completes normally, whether or not an
\* earlier exception is still pending.  Stated for the steps AFTER_PUSHED,
\* SELECT_CHILD and ON_POPPING.
C17_StepClearsError ==
    [][\A c \in CoIds :
         (\/ \E b, k \in BOOLEAN : \/ after_pushed(c, b, k)
                                   \/ on_popping(c, b, k)
          \/ \E e \in {NoElement} \cup PlainElements, k \in BOOLEAN :
                on_select_child(c, e, k))
         => /\ aborted' = ""
            /\ errcode' = 0
            /\ (errcode # 0 /\ frames'[c] # <<>>) => except'[c] = 1]_vars

\* ------------------------------------------------------------------------
\* C18: on each scan of an observed expression variable, a value equal to
\* last_value dispatches no change message and leaves last_value alone; a
\* value that differs dispatches exactly one change message and becomes
\* last_value, also when several observers observe the variable.  Stated
\* for the scans that can push their virtual frame.
C18_ScanDetectsChange ==
    [][\A t \in CoIds :
         (pcintr_event_timer_fire(t) /\ observers[t]["native"] # <<>>
            /\ FreshAddr(frames[t]) # NULL)
         => IF ev_value = ev_last
            THEN loopq' = loopq /\ ev_last' = ev_last
            ELSE /\ Len(loopq') = Len(loopq) + 1
                 /\ loopq'[Len(loopq')].kind = "handle_message"
                 /\ loopq'[Len(loopq')].atom = "change"
                 /\ ev_last' = ev_value]_vars

\* ------------------------------------------------------------------------
\* C19: when a coroutine is torn down every request id still in its array
\* is cancelled exactly once, an id removed from the array before is not
\* cancelled, and the array is empty afterwards.
C19_TeardownCancelsOutstanding ==
    [][\A c \in CoIds :
         (life[c] = "alive" /\ life'[c] = "destroyed")
         => /\ async'.ids[c] = <<>>
            /\ \A i \in AsyncIds :
                 IF \E n \in 1..Len(async.ids[c]) : async.ids[c][n] = i
                 THEN async.cancels[i] = 0 /\ async'.cancels[i] = 1
                 ELSE async'.cancels[i] = async.cancels[i]
            /\ \A i \in async.removed : async'.cancels[i] = 0]_vars

\* a coroutine was torn down with one id outstanding, which was cancelled,
\* after another id had been removed from its array, which was not
C19_Witness ==
    \E c \in CoIds, i, j \in AsyncIds :
        /\ life[c] = "destroyed" /\ async.ids[c] = <<>>
        /\ async.cancels[i] = 1
        /\ j \in async.removed /\ async.cancels[j] = 0

C21_IntervalChangeReachesTimer ==
    [][\A id \in TimerIds :
         (timers.obj[id].in /\ timers'.obj[id].in
            /\ timers'.obj[id].interval # timers.obj[id].interval)
         => timers'.tm[id].interval = timers'.obj[id].interval]_vars

C23_ExclusiveMatchMarksParent ==
    [][\A c \in CoIds :
         (InStep(c) /\ Bottom(c).ops = "match" /\ pc' = "rc"
            /\ aborted' = "")
         => LET f == Bottom(c)
                p == Len(frames[c]) - 1
            IN  /\ (f.next_step = NEXT_STEP_AFTER_PUSHED
                      /\ frames'[c][p + 1].ctxt.id # NULL)
                     => /\ frames'[c][p + 1].ctxt.is_exclusively
                             <=> f.pos.excl \in {"exclusively", "excl"}
                        /\ frames'[c][p + 1].ctxt.matched
                             <=> \/ f.pos.for = PURC_VARIANT_INVALID
                                 \/ f.pos.for = f.sym["?"]
                /\ f.next_step = NEXT_STEP_ON_POPPING
                     => /\ Len(frames'[c]) = p
                        /\ frames'[c][p].result_from_child =
                             IF f.ctxt.is_exclusively /\ f.ctxt.matched
                             THEN [type |-> "boolean", v |-> 1]
                             ELSE frames[c][p].result_from_child]_vars

\* the second of two exclusive match children is about to be popped: its
\* rule did not match the value the first one matched, and the parent
\* carries the mark of the first
C23_Witness ==
    \E c \in CoIds :
        /\ InStep(c) /\ Len(frames[c]) = 2
        /\ Bottom(c).ops = "match"
        /\ Bottom(c).next_step = NEXT_STEP_ON_POPPING
        /\ Bottom(c).pos.excl = "exclusively"
        /\ Bottom(c).pos.for = [type |-> "string", v |-> 2]
        /\ Bottom(c).sym["?"] = [type |-> "string", v |-> 1]
        /\ Bottom(c).ctxt.id = 2 /\ ~Bottom(c).ctxt.matched
        /\ ctxts.destroyed[1] = 1
        /\ frames[c][1].result_from_child = [type |-> "boolean", v |-> 1]

C25_PostReqLinksOnSuccessOnly ==
    [][\A r \in ReqIds :
         (reqs[r].state = "" /\ reqs'[r].state # "")
           => IF reqs'[r].freed
              THEN QueuesUnchanged
              ELSE /\ pending_reqs' = Append(pending_reqs, r)
                   /\ UNCHANGED <<active_reqs, cancelled_reqs,
                                  hibernating_reqs, dying_reqs>>
                   /\ reqs'[r].state = REQ_STATE_PENDING
                   /\ reqs'[r].owner = running_coroutine
                   /\ reqs'[r].frame = BottomAddr(running_coroutine)
                   /\ \A q \in ReqIds \ {r} : reqs'[q] = reqs[q]]_vars

C29_AfterPushedStep ==
    [][\A c \in CoIds :
         (InStep(c) /\ Bottom(c).next_step = NEXT_STEP_AFTER_PUSHED
            /\ co_state'[c] # co_state[c])
         => /\ Len(frames'[c]) = Len(frames[c])
            /\ \A n \in 1..(Len(frames[c]) - 1) :
                  frames'[c][n] = frames[c][n]
            /\ \A d \in CoIds \ {c} : frames'[d] = frames[d]
            /\ [Bottom(c)' EXCEPT !.next_step = NEXT_STEP_AFTER_PUSHED,
                                  !.ctxt = NoCtxt]
                  = [Bottom(c) EXCEPT !.ctxt = NoCtxt]
            /\ Bottom(c)'.next_step
                  \in {NEXT_STEP_ON_POPPING, NEXT_STEP_SELECT_CHILD}
            /\ Bottom(c).ops = "match"
                  => (Bottom(c)'.next_step = NEXT_STEP_ON_POPPING
                        <=> Bottom(c)'.ctxt.id = NULL)
            /\ Bottom(c).ops # "match" => Bottom(c)'.ctxt = Bottom(c).ctxt]_vars

\* a match frame whose handler returned no context stands at ON_POPPING
\* on top of the frame that selected it
C29_Witness ==
    \E c \in CoIds :
        /\ Len(frames[c]) > 1
        /\ Bottom(c).ops = "match"
        /\ Bottom(c).next_step = NEXT_STEP_ON_POPPING
        /\ Bottom(c).ctxt.id = NULL
        /\ except[c] = 1

C31_OnPoppingStep ==
    [][\A c \in CoIds :
         (InStep(c) /\ Bottom(c).next_step = NEXT_STEP_ON_POPPING
            /\ co_state'[c] # co_state[c])
         => /\ \A d \in CoIds \ {c} : frames'[d] = frames[d]
            /\ \/ frames'[c] = WithBottom(c, [Bottom(c) EXCEPT
                                    !.next_step = NEXT_STEP_RERUN])
               \/ /\ Len(frames'[c]) = Len(frames[c]) - 1
                  /\ \A n \in 1..(Len(frames[c]) - 2) :
                        frames'[c][n] = frames[c][n]
                  /\ Len(frames[c]) > 1
                       => /\ Bottom(c)'.addr
                               = frames[c][Len(frames[c]) - 1].addr
                          /\ [Bottom(c)' EXCEPT !.result_from_child =
                                                   PURC_VARIANT_INVALID]
                               = [frames[c][Len(frames[c]) - 1] EXCEPT
                                    !.result_from_child =
                                        PURC_VARIANT_INVALID]]_vars

\* a child frame has been popped in the step just made: its parent is the
\* bottom frame again, at SELECT_CHILD as it was, carrying the mark the
\* handler of the child left, and the context of the child is destroyed
C31_Witness ==
    \E c \in CoIds :
        /\ pc = "rc" /\ life[c] = "alive"
        /\ Len(frames[c]) = 1
        /\ Bottom(c).next_step = NEXT_STEP_SELECT_CHILD
        /\ Bottom(c).result_from_child = [type |-> "boolean", v |-> 1]
        /\ ctxts.destroyed[1] = 1 /\ ctxts.made = 1

\* ------------------------------------------------------------------------
\* C32: the step of a coroutine whose bottom frame is at RERUN completes,
\* with no assertion failing in on_rerun, and leaves that frame at
\* SELECT_CHILD with the stack otherwise as it was, whether or not the
\* element has a rerun handler and whatever the handler returns.
C32_RerunStepCompletes ==
    [][\A c \in CoIds :
         (InStep(c) /\ Bottom(c).next_step = NEXT_STEP_RERUN)
         => /\ aborted' # "on_rerun: not ok"
            /\ co_state'[c] # co_state[c]
                 => frames'[c] = WithBottom(c, [Bottom(c) EXCEPT
                                    !.next_step = NEXT_STEP_SELECT_CHILD])]_vars

\* C33: when the scheduler terminates a coroutine, on_terminated is invoked
\* once, then on_cleanup once, then the coroutine is unlinked from the heap
\* and destroyed; on no teardown path (scheduler termination, failing load,
\* instance cleanup) is either hook invoked more than once for a coroutine
C33_HooksOnceInOrder ==
    [][\A c \in CoIds :
         /\ (life[c] = "alive" /\ life'[c] = "destroyed"
                /\ pc \in {"rc", "step"})
              => /\ hist'.hooks[c] =
                      <<"on_terminated", "on_cleanup", "list_del", "free">>
                 /\ \A n \in 1..Len(coroutines') : coroutines'[n] # c
                 /\ frames'[c] = <<>>
         /\ \A h \in {"on_terminated", "on_cleanup"} :
                Cardinality({n \in 1..Len(hist'.hooks[c]) :
                                hist'.hooks[c][n] = h}) <= 1]_vars

\* one coroutine was terminated by the scheduler, another was destroyed
\* outside it with its on_cleanup hook still set
C33_Witness ==
    \E c, d \in CoIds :
        /\ life[c] = "destroyed" /\ life[d] = "destroyed"
        /\ hist.hooks[c] = terminating_co_hooks
        /\ hist.on_terminated[c] = 1
        /\ hist.hooks[d] = <<"list_del", "on_cleanup", "free">>

C35_AttachSendsCreateOps ==
    LET s == rdr.sent
        want_ws == rdr.target_workspace /\ rdr.caps_workspace
        w == IF want_ws THEN 2 ELSE 1
    IN  (rdr.called /\ rdr.target_window)
        => /\ s # <<>>
           /\ want_ws <=> (s[1].operation = PCRDR_OPERATION_CREATEWORKSPACE)
           /\ \A n \in 2..Len(s) :
                 s[n].operation # PCRDR_OPERATION_CREATEWORKSPACE
           /\ want_ws => s[1].target = "session"
                           /\ s[1].target_value = rdr.session_handle
           /\ Len(s) >= w
               => /\ s[w].operation =
                        (IF rdr.target_tabpage
                         THEN PCRDR_OPERATION_CREATETABBEDWINDOW
                         ELSE PCRDR_OPERATION_CREATEPLAINWINDOW)
                  /\ IF want_ws THEN s[w].target = "workspace"
                     ELSE s[w].target = "session"
                            /\ s[w].target_value = rdr.session_handle
                  /\ Len(s) <= w + 1
                  /\ Len(s) = w + 1
                       => /\ rdr.target_tabpage
                          /\ s[w + 1].operation =
                                PCRDR_OPERATION_CREATETABPAGE
                          /\ s[w + 1].target = "tabbedWindow"
           /\ rdr.ret
               => /\ Len(s) = w + (IF rdr.target_tabpage THEN 1 ELSE 0)
                  /\ want_ws => s[w].target_value = rdr.workspace
                  /\ rdr.target_tabpage
                       => s[w + 1].target_value = rdr.window

\* C36: each existing request is linked in exactly one of the five request
\* queues of the heap, the one of its state, and the queues link nothing
\* but existing requests
C36_RequestInQueueOfItsState ==
    LET Queue(st) ==
            IF st = REQ_STATE_PENDING THEN pending_reqs
            ELSE IF st = REQ_STATE_ACTIVATING THEN active_reqs
            ELSE IF st = REQ_STATE_HIBERNATING THEN hibernating_reqs
            ELSE IF st = REQ_STATE_CANCELLED THEN cancelled_reqs
            ELSE dying_reqs
        States == {REQ_STATE_PENDING, REQ_STATE_ACTIVATING,
                   REQ_STATE_HIBERNATING, REQ_STATE_CANCELLED,
                   REQ_STATE_DYING}
        Links(q, r) == Cardinality({n \in 1..Len(q) : q[n] = r})
    IN  \A r \in ReqIds :
          IF reqs[r].state # "" /\ ~reqs[r].freed
          THEN \A st \in States :
                  Links(Queue(st), r) = (IF st = reqs[r].state THEN 1 ELSE 0)
          ELSE \A st \in States : Links(Queue(st), r) = 0

\* C37: each run of on_req_activating on an activated request, of whatever
\* type, calls ops.callback once when the request is not moved to the
\* hibernating queue and not at all when it is
C37_CallbackOncePerActivation ==
    [][(on_req_activating /\ active_reqs # <<>>)
       => LET r == Head(active_reqs)
          IN  reqs'[r].callbacks - reqs[r].callbacks =
                 (IF \E n \in 1..Len(hibernating_reqs') :
                         hibernating_reqs'[n] = r
                  THEN 0 ELSE 1)]_vars

\* C38: whenever the loop of purc_run has stopped, the routines posted and
\* the five request queues are empty, so no assertion at the end of
\* purc_run fails
C38_QueuesEmptyWhenLoopStops ==
    /\ pc \in {"exiting", "stopped"}
         => /\ routines = <<>>
            /\ pending_reqs = <<>> /\ active_reqs = <<>>
            /\ cancelled_reqs = <<>> /\ hibernating_reqs = <<>>
            /\ dying_reqs = <<>>
    /\ aborted \notin {"purc_run: routines is not empty",
                        "purc_run: a queue is not empty"}

\* C39: whenever the loop dispatches wakeup_for_routines or
\* on_req_activating, the heap has a current running coroutine and the
\* handler gets past its assertions on it
C39_CurrentCoroutineInDispatch ==
    [][(wakeup_for_routines \/ on_req_activating)
       => /\ running_coroutine # NULL
          /\ aborted' = ""]_vars

\* C40: iterating the KEY executor over an object (it_begin, then it_value
\* and it_next with an unchanged rule until it_next returns null) gives
\* exactly the entries whose key satisfies the rule, each once and in the
\* order of the object; choose returns the array of those values; the step
\* past the last matching entry returns null with the error NOT_EXISTS
\* and leaves the current value of the iterator as it was
C40_KeyIteration ==
    LET x == exe_key
        Sat(k) == key_rule_eval(x.rule, k)
        Keys == SelectSeq(x.input, Sat)
        Expected == [n \in 1..Len(Keys) |->
                        entry_value(x.rule.for_clause, Keys[n],
                                    "=" \o Keys[n])]
        IsPrefix(a, b) == Len(a) <= Len(b) /\ a = SubSeq(b, 1, Len(a))
    IN  /\ aborted \notin {"exe_key_it_value: no cache",
                            "exe_key_it_next: no cache"}
        /\ x.chose => x.chosen = Expected
        /\ (x.type = "ITERATE" /\ x.begun)
             => /\ IsPrefix(x.yielded, Expected)
                /\ x.ok => /\ x.yielded # <<>>
                           /\ x.value = x.yielded[Len(x.yielded)]
                           /\ x.read => x.last = x.value
                /\ ~x.ok
                     => /\ x.yielded = Expected
                        /\ x.err = PCEXECUTOR_ERROR_NOT_EXISTS
                        /\ x.value = (IF Expected = <<>> THEN <<>>
                                      ELSE Expected[Len(Expected)])

====
